---- MODULE Spec2Model ----
(***************************************************************************)
(* Model of the workflow engine (engine/workflowEngine.ts): validation,    *)
(* dependency graph, topological ordering and the scheduler loop of        *)
(* executeWorkflow with per-node retry and cooperative cancellation.       *)
(*                                                                         *)
(* JavaScript Map and Set iterate in insertion order, so both are modelled *)
(* as sequences without repetition.  A node executor call is an opaque     *)
(* asynchronous operation that either resolves (with a defined or an       *)
(* undefined output) or rejects.                                           *)
(***************************************************************************)
EXTENDS Integers, Sequences, FiniteSets, TLC

(***************************************************************************)
(* Bounds of the model                                                     *)
(***************************************************************************)
MaxNodes == 3
MaxRetryAttempts == 2

\* The universe of node ids.  An id of this set that no node of a workflow
\* carries is a non-existent node for that workflow.
NodeIds == {"A", "B", "C"}

IdOrder == <<"A", "B", "C">>

(***************************************************************************)
(* Sequence helpers                                                        *)
(***************************************************************************)
Range(s) == {s[i] : i \in DOMAIN s}

Contains(s, x) == \E i \in DOMAIN s : s[i] = x

\* Set.add / Map.set of a new key: append unless already present
AddKey(s, x) == IF Contains(s, x) THEN s ELSE Append(s, x)

\* Array.prototype.reverse
Reverse(s) == [i \in 1..Len(s) |-> s[Len(s) + 1 - i]]

IndexOf(s, x) == CHOOSE i \in DOMAIN s : s[i] = x /\ \A j \in 1..(i - 1) : s[j] # x

IsInjective(s) == \A i, j \in DOMAIN s : s[i] = s[j] => i = j

(***************************************************************************)
(* NodeStatus (types/workflow.ts)                                          *)
(***************************************************************************)
PENDING == "pending"
RUNNING == "running"
SUCCESS == "success"
FAILED == "failed"
SKIPPED == "skipped"

(***************************************************************************)
(* The workflow definitions the model runs                                 *)
(***************************************************************************)
\* dependencies: string[] -- arrays of distinct ids, in any order, naming up
\* to all the other ids
DepLists ==
    {s \in UNION {[1..n -> NodeIds] : n \in 0..(Cardinality(NodeIds) - 1)} : IsInjective(s)}

\* Ids are opaque to the engine (only compared for equality), so node lists
\* are taken up to renaming: the k-th distinct id of a list is IdOrder[k].
CanonicalIds(ids) ==
    \A i \in DOMAIN ids :
        \/ \E j \in 1..(i - 1) : ids[j] = ids[i]
        \/ ids[i] = IdOrder[Cardinality({ids[j] : j \in 1..(i - 1)}) + 1]

IdLists(n) == {ids \in [1..n -> NodeIds] : CanonicalIds(ids)}

\* the node list with ids[i] and deps[i] as the i-th node
MakeNodes(ids, deps) ==
    [i \in DOMAIN ids |-> [id |-> ids[i], dependencies |-> deps[i]]]

EntryChoices == {<<>>, <<"A">>, <<"C">>}

(***************************************************************************)
(* WorkflowEngine.validateWorkflow and detectCycle                         *)
(***************************************************************************)
\* Map.get(nodeId) || [] on the Map built by detectCycle: a later node with
\* the same id overwrites the dependencies of an earlier one.
CycleNeighbors(nodes, nodeId) ==
    IF \E i \in DOMAIN nodes : nodes[i].id = nodeId
    THEN nodes[CHOOSE i \in DOMAIN nodes :
                  nodes[i].id = nodeId /\ \A j \in (i + 1)..Len(nodes) : nodes[j].id # nodeId].dependencies
    ELSE <<>>

\* graph.keys() of detectCycle's Map: first-insertion order of the node ids
RECURSIVE KeysOf(_)
KeysOf(nodes) ==
    IF nodes = <<>> THEN <<>>
    ELSE AddKey(KeysOf(SubSeq(nodes, 1, Len(nodes) - 1)), nodes[Len(nodes)].id)

RECURSIVE hasCycleUtil(_, _, _)
RECURSIVE hasCycleNeighbors(_, _, _, _)

\* st = [visited, recStack, found]; found is the boolean the function returns
hasCycleUtil(nodes, nodeId, st) ==
    LET st1 == [st EXCEPT !.visited = @ \cup {nodeId}, !.recStack = @ \cup {nodeId}]
        st2 == hasCycleNeighbors(nodes, nodeId, 1, st1)
    IN  IF st2.found THEN st2 ELSE [st2 EXCEPT !.recStack = @ \ {nodeId}]

hasCycleNeighbors(nodes, nodeId, i, st) ==
    LET neighbors == CycleNeighbors(nodes, nodeId) IN
    IF i > Len(neighbors) THEN st
    ELSE LET neighbor == neighbors[i] IN
         IF neighbor \notin st.visited
         THEN LET st2 == hasCycleUtil(nodes, neighbor, st) IN
              IF st2.found THEN st2 ELSE hasCycleNeighbors(nodes, nodeId, i + 1, st2)
         ELSE IF neighbor \in st.recStack
              THEN [st EXCEPT !.found = TRUE]
              ELSE hasCycleNeighbors(nodes, nodeId, i + 1, st)

RECURSIVE detectCycleFrom(_, _, _, _)
detectCycleFrom(nodes, keys, k, st) ==
    IF k > Len(keys) THEN FALSE
    ELSE IF keys[k] \notin st.visited
         THEN LET st2 == hasCycleUtil(nodes, keys[k], st) IN
              IF st2.found THEN TRUE ELSE detectCycleFrom(nodes, keys, k + 1, st2)
         ELSE detectCycleFrom(nodes, keys, k + 1, st)

\* detectCycle that only notices a node naming itself
detectCycleSelfOnly(nodes) ==
    \E i \in DOMAIN nodes : Contains(nodes[i].dependencies, nodes[i].id)

detectCycle(nodes) ==
    detectCycleFrom(nodes, KeysOf(nodes), 1, [visited |-> {}, recStack |-> {}, found |-> FALSE])

\* The errors validateWorkflow throws, by kind; "ok" when it returns
hasDuplicateId(nodes) ==
    \E i \in DOMAIN nodes : \E j \in 1..(i - 1) : nodes[j].id = nodes[i].id

hasInvalidDependency(nodes) ==
    \E i \in DOMAIN nodes : \E k \in DOMAIN nodes[i].dependencies :
        \A j \in DOMAIN nodes : nodes[j].id # nodes[i].dependencies[k]

hasInvalidEntry(workflow) ==
    \E e \in DOMAIN workflow.entryNodes :
        \A j \in DOMAIN workflow.nodes : workflow.nodes[j].id # workflow.entryNodes[e]

\* validateWorkflow without the loop that checks the dependencies
validateWorkflowNoDependencyCheck(workflow) ==
    IF hasDuplicateId(workflow.nodes) THEN "Duplicate node ID"
    ELSE IF detectCycle(workflow.nodes) THEN "circular dependencies"
    ELSE IF hasInvalidEntry(workflow) THEN "Invalid entry node"
    ELSE "ok"

\* validateWorkflow that looks for cycles before it checks the dependencies
validateWorkflowCycleFirst(workflow) ==
    IF hasDuplicateId(workflow.nodes) THEN "Duplicate node ID"
    ELSE IF detectCycle(workflow.nodes) THEN "circular dependencies"
    ELSE IF hasInvalidDependency(workflow.nodes) THEN "invalid dependency"
    ELSE IF hasInvalidEntry(workflow) THEN "Invalid entry node"
    ELSE "ok"

validateWorkflow(workflow) ==
    IF hasDuplicateId(workflow.nodes) THEN "Duplicate node ID"
    ELSE IF hasInvalidDependency(workflow.nodes) THEN "invalid dependency"
    ELSE IF detectCycle(workflow.nodes) THEN "circular dependencies"
    ELSE IF hasInvalidEntry(workflow) THEN "Invalid entry node"
    ELSE "ok"

(***************************************************************************)
(* WorkflowEngine.buildDependencyGraph and topologicalSort                 *)
(***************************************************************************)
\* Map<string, Set<string>>: keys in insertion order, adj[k] the dependents
\* of k in insertion order
EmptyGraph == [keys |-> <<>>, adj |-> [x \in NodeIds |-> <<>>]]

GraphAddKey(g, x) == [g EXCEPT !.keys = AddKey(@, x)]

GraphAddEdge(g, depId, nodeId) ==
    LET g1 == GraphAddKey(g, depId) IN [g1 EXCEPT !.adj[depId] = AddKey(@, nodeId)]

RECURSIVE AddDependencies(_, _, _, _)
AddDependencies(g, nodeId, deps, k) ==
    IF k > Len(deps) THEN g
    ELSE AddDependencies(GraphAddEdge(g, deps[k], nodeId), nodeId, deps, k + 1)

RECURSIVE buildGraphFrom(_, _, _)
buildGraphFrom(g, nodes, i) ==
    IF i > Len(nodes) THEN g
    ELSE buildGraphFrom(
            AddDependencies(GraphAddKey(g, nodes[i].id), nodes[i].id, nodes[i].dependencies, 1),
            nodes, i + 1)

buildDependencyGraph(nodes) == buildGraphFrom(EmptyGraph, nodes, 1)

RECURSIVE visit(_, _, _)
RECURSIVE visitDependents(_, _, _, _)

\* st = [result, visited, temp, threw]; threw: 'Circular dependency detected'
visit(graph, nodeId, st) ==
    IF st.threw THEN st
    ELSE IF nodeId \in st.temp THEN [st EXCEPT !.threw = TRUE]
    ELSE IF nodeId \in st.visited THEN st
    ELSE LET st1 == [st EXCEPT !.temp = @ \cup {nodeId}]
             st2 == visitDependents(graph, nodeId, 1, st1)
         IN  IF st2.threw THEN st2
             ELSE [st2 EXCEPT !.temp = @ \ {nodeId},
                              !.visited = @ \cup {nodeId},
                              !.result = Append(@, nodeId)]

visitDependents(graph, nodeId, k, st) ==
    IF st.threw \/ k > Len(graph.adj[nodeId]) THEN st
    ELSE visitDependents(graph, nodeId, k + 1, visit(graph, graph.adj[nodeId][k], st))

RECURSIVE visitKeys(_, _, _)
visitKeys(graph, k, st) ==
    IF st.threw \/ k > Len(graph.keys) THEN st
    ELSE IF graph.keys[k] \notin st.visited
         THEN visitKeys(graph, k + 1, visit(graph, graph.keys[k], st))
         ELSE visitKeys(graph, k + 1, st)

\* topologicalSort returning result without result.reverse()
topologicalSortUnreversed(graph) ==
    LET st == visitKeys(graph, 1, [result |-> <<>>, visited |-> {}, temp |-> {}, threw |-> FALSE])
    IN  [order |-> IF st.threw THEN <<>> ELSE st.result, threw |-> st.threw]

\* [order, threw]: the returned array, or the thrown error
topologicalSort(graph) ==
    LET st == visitKeys(graph, 1, [result |-> <<>>, visited |-> {}, temp |-> {}, threw |-> FALSE])
    IN  [order |-> IF st.threw THEN <<>> ELSE Reverse(st.result), threw |-> st.threw]

(***************************************************************************)
(* Map<string, NodeExecutionResult>: entries in insertion order            *)
(***************************************************************************)
MapHas(results, nodeId) == \E i \in DOMAIN results : results[i].nodeId = nodeId

MapGet(results, nodeId) == results[CHOOSE i \in DOMAIN results : results[i].nodeId = nodeId]

\* a map that does not keep insertion order: a new key goes to the front
MapSetUnordered(results, r) ==
    IF MapHas(results, r.nodeId)
    THEN [i \in DOMAIN results |-> IF results[i].nodeId = r.nodeId THEN r ELSE results[i]]
    ELSE <<r>> \o results

\* Map.set: replaces the value of an existing key in place, else appends
MapSet(results, r) ==
    IF MapHas(results, r.nodeId)
    THEN [i \in DOMAIN results |-> IF results[i].nodeId = r.nodeId THEN r ELSE results[i]]
    ELSE Append(results, r)

MapKeys(results) == {results[i].nodeId : i \in DOMAIN results}

\* workflow.nodes.find(n => n.id === nodeId): the first node with that id
HasNode(nodes, nodeId) == \E i \in DOMAIN nodes : nodes[i].id = nodeId

FindNode(nodes, nodeId) ==
    nodes[CHOOSE i \in DOMAIN nodes : nodes[i].id = nodeId /\ \A j \in 1..(i - 1) : nodes[j].id # nodeId]

\* checkDependencies that only asks for a result, whatever its status
checkDependenciesAnyResult(node, results) ==
    \A k \in DOMAIN node.dependencies : MapHas(results, node.dependencies[k])

(***************************************************************************)
(* WorkflowEngine.checkDependencies                                        *)
(***************************************************************************)
checkDependencies(node, results) ==
    \A k \in DOMAIN node.dependencies :
        /\ MapHas(results, node.dependencies[k])
        /\ MapGet(results, node.dependencies[k]).status = SUCCESS

(***************************************************************************)
(* State of one executeWorkflow call                                       *)
(***************************************************************************)
VARIABLES
    workflow,          \* the WorkflowDefinition passed by the caller
    pc,                \* position of the call: idle, validate, loop, attempt,
                       \* running, sleep, finally, done
    activeExecutions,  \* keys of the engine's Map<executionId, AbortController>
    aborted,           \* abortController.signal.aborted
    status,            \* let status: 'success' | 'failed' | 'partial'
    nodeResults,       \* const nodeResults = new Map()
    outputs,           \* context.outputs
    executionOrder,    \* const executionOrder = topologicalSort(...)
    idx,               \* position of the for-of loop in executionOrder
    attempts,          \* executeNode: let attempts
    maxAttempts,       \* executeNode: const maxAttempts
    lastError,         \* executeNode: let lastError
    caught,            \* the error handled by executeWorkflow's catch block
    returned,          \* how the promise of the call settled
    started,           \* the nodes executeNode was called for, in order
    invocations,       \* number of nodeExecutor.execute calls per node
    attemptLog,        \* per node, the outcome of each pass of the attempt loop
    timeout,           \* executeNode: effectiveNode.timeout, 0 when it is not set
    abandoned,         \* executor promises that lost the race against the timer
                       \* and are still running
    events,            \* the events fired for this execution, in order
    otherPc,           \* position of another executeWorkflow call on the same
                       \* engine: idle, running, done
    execNode,          \* NodeExecutor.execute: the loop or parallel node
    xpc,               \* position of that call: idle, waiting, loop, iteration,
                       \* returned, threw
    heap,              \* the objects the contexts refer to, by address
    context,           \* the context the node was called with
    branchContexts,    \* the context of each parallel child or loop iteration
    childStatus,       \* executeParallel: how each child promise stands
    settled,           \* executeParallel: the children in the order they settled
    iterations,        \* executeLoop: const iterations
    iteration,         \* executeLoop: let i
    childIdx,          \* executeLoop: position in node.childNodes
    iterationResults,  \* executeLoop: const iterationResults
    loopResults,       \* executeLoop: const results
    execOutput,        \* what the call resolved with
    thrown,            \* what the call rejected with
    branchNodes,       \* executeCondition: const branchNodes
    branchResults,     \* executeCondition: const branchResults
    parentPc,          \* position of a parent execution whose only node is a
                       \* nested_workflow node: idle, load, nested, sleep, done
    parentAttempts,    \* executeNode of the nested node: let attempts
    parentMaxAttempts, \* executeNode of the nested node: const maxAttempts
    parentResults,     \* nodeResults of the parent execution
    parentStatus,      \* status of the parent execution
    nestedResults,     \* what each executeWorkflow call of the nested node
                       \* returned, in order
    customNodeTypes,   \* ExtensionManager.customNodeTypes: Map type -> CustomNodeType
    registerError,     \* what the last registerCustomNodeType call threw
    dispatched,        \* the last NodeExecutor.execute call on a node without
                       \* children and how it was dispatched
    executions,        \* ExecutionHistoryProvider.executions, newest first
    storedHistory,     \* globalState 'executionHistory'
    pathText,          \* setContextPath / resolveContextPath: path, as its
                       \* characters
    pathValue,         \* setContextPath: value
    pathBefore,        \* the context object before the call
    pathContext,       \* the context object
    pathPc,            \* the call made on the context: none, set, resolve
    pathOutcome,       \* what the call returned or that it threw
    validationResults, \* what each validateWorkflow call on the workflow
                       \* returned ("ok") or threw, in order
    nodeContext,       \* executeNode: const nodeContext, of the last node run
    written,           \* the value last written under each context path by
                       \* a node of the execution
    nodesRun,          \* the number of nodes the execution has run
    retryPolicy,       \* executeNode: node.retryPolicy
    retryAttempts,     \* executeNode: let attempts, of the call on that node
    delays,            \* the delays the call has slept, in order
    retryPc,           \* where the call is: attempt, sleep, returned
    extensions,        \* ExtensionManager.extensions: Map id -> PluginExtension
    files,             \* the workspace: uri -> the workflow file found there
    workflowCache,     \* WorkflowStorageManager.workflowCache: Map id -> entry
    cacheInitialized,  \* WorkflowStorageManager.cacheInitialized
    loadResult,        \* the request and the result of the last loadWorkflowById
    clock,             \* the modification time the next file write gets
    chunkInput,        \* chunkText: the text and the options of the node
    chunkStart,        \* chunkText: start
    chunks,            \* chunkText: chunks
    chunkPc            \* chunkText: looping or returned

vars == <<workflow, pc, activeExecutions, aborted, status, nodeResults, outputs,
          executionOrder, idx, attempts, maxAttempts, lastError, caught, returned,
          started, invocations, attemptLog, timeout, abandoned, events,
          otherPc, execNode, xpc, heap, context, branchContexts, childStatus,
          settled, iterations, iteration, childIdx, iterationResults, loopResults,
          execOutput, thrown, branchNodes, branchResults, parentPc,
          parentAttempts, parentMaxAttempts, parentResults, parentStatus,
          nestedResults, customNodeTypes, registerError, dispatched, executions,
          storedHistory, pathText, pathValue, pathBefore, pathContext, pathPc,
          pathOutcome, validationResults, nodeContext, written, nodesRun,
          retryPolicy, retryAttempts, delays, retryPc, extensions, files,
          workflowCache, cacheInitialized, loadResult, clock, chunkInput,
          chunkStart, chunks, chunkPc>>

engineVars == <<workflow, pc, activeExecutions, aborted, status, nodeResults, outputs,
                executionOrder, idx, attempts, maxAttempts, lastError, caught,
                returned, started, invocations, attemptLog, timeout, abandoned,
                events, otherPc>>

executorVars == <<execNode, xpc, heap, context, branchContexts, childStatus, settled,
                  iterations, iteration, childIdx, iterationResults, loopResults,
                  execOutput, thrown>>

conditionVars == <<branchNodes, branchResults>>

\* the variables of the parts that the engine, executeParallel and executeLoop
\* do not touch
nestedVars == <<parentPc, parentAttempts, parentMaxAttempts, parentResults,
                parentStatus, nestedResults>>

registryVars == <<customNodeTypes, registerError, dispatched>>

historyVars == <<executions, storedHistory>>

pathVars == <<pathText, pathValue, pathBefore, pathContext, pathPc, pathOutcome>>

validateVars == <<validationResults>>

overrideVars == <<nodeContext, written, nodesRun>>

retryVars == <<retryPolicy, retryAttempts, delays, retryPc>>

extensionVars == <<extensions>>

storageVars == <<files, workflowCache, cacheInitialized, loadResult, clock>>

chunkVars == <<chunkInput, chunkStart, chunks, chunkPc>>

restVars == <<conditionVars, nestedVars, registryVars, historyVars, pathVars,
              validateVars, overrideVars, retryVars, extensionVars, storageVars,
              chunkVars>>

restButCondition ==
    <<nestedVars, registryVars, historyVars, pathVars, validateVars, overrideVars,
      retryVars, extensionVars, storageVars, chunkVars>>
restButNested ==
    <<conditionVars, registryVars, historyVars, pathVars, validateVars, overrideVars,
      retryVars, extensionVars, storageVars, chunkVars>>
restButRegistry ==
    <<conditionVars, nestedVars, historyVars, pathVars, validateVars, overrideVars,
      retryVars, extensionVars, storageVars, chunkVars>>
restButHistory ==
    <<conditionVars, nestedVars, registryVars, pathVars, validateVars, overrideVars,
      retryVars, extensionVars, storageVars, chunkVars>>
restButPath ==
    <<conditionVars, nestedVars, registryVars, historyVars, validateVars, overrideVars,
      retryVars, extensionVars, storageVars, chunkVars>>
restButValidate ==
    <<conditionVars, nestedVars, registryVars, historyVars, pathVars, overrideVars,
      retryVars, extensionVars, storageVars, chunkVars>>
restButOverride ==
    <<conditionVars, nestedVars, registryVars, historyVars, pathVars, validateVars,
      retryVars, extensionVars, storageVars, chunkVars>>
restButRetry ==
    <<conditionVars, nestedVars, registryVars, historyVars, pathVars, validateVars,
      overrideVars, extensionVars, storageVars, chunkVars>>
restButRegistryAndExtension ==
    <<conditionVars, nestedVars, historyVars, pathVars, validateVars, overrideVars,
      retryVars, storageVars, chunkVars>>
restButStorage ==
    <<conditionVars, nestedVars, registryVars, historyVars, pathVars, validateVars,
      overrideVars, retryVars, extensionVars, chunkVars>>
restButChunk ==
    <<conditionVars, nestedVars, registryVars, historyVars, pathVars, validateVars,
      overrideVars, retryVars, extensionVars, storageVars>>

\* const executionId = uuidv4()
executionId == "exec-1"

\* the uuidv4() of another call
otherExecutionId == "exec-2"

UNDEFINED == "undefined"

\* the nodes whose configuration may carry a timeout
TimeoutNodes == {"A"}

\* node.timeout: not set (0 stands for undefined and for 0), or a number of
\* milliseconds
NodeTimeouts(nodeId) == IF nodeId \in TimeoutNodes THEN 0..1 ELSE {0}

\* what nodeExecutor.execute may resolve with
ExecutorOutputs == {UNDEFINED, "value"}

\* no NodeExecutor call is modelled: the executor's variables stay as they are
ExecutorAtRest ==
    /\ execNode = [type |-> "none"]
    /\ xpc = "idle"
    /\ heap = <<>>
    /\ context = [data |-> 0, variables |-> 0, outputs |-> 0, metadata |-> 0]
    /\ branchContexts = <<>>
    /\ childStatus = <<>>
    /\ settled = <<>>
    /\ iterations = 0
    /\ iteration = 0
    /\ childIdx = 1
    /\ iterationResults = <<>>
    /\ loopResults = <<>>
    /\ execOutput = [kind |-> "none"]
    /\ thrown = "none"

\* the engine before executeWorkflow is called
EngineAtRest ==
    /\ pc = "idle"
    /\ activeExecutions = {}
    /\ aborted = FALSE
    /\ status = "success"
    /\ nodeResults = <<>>
    /\ outputs = <<>>
    /\ executionOrder = <<>>
    /\ idx = 1
    /\ attempts = 0
    /\ maxAttempts = 1
    /\ lastError = "none"
    /\ caught = "none"
    /\ returned = "none"
    /\ started = <<>>
    /\ invocations = [n \in NodeIds |-> 0]
    /\ attemptLog = [n \in NodeIds |-> <<>>]
    /\ timeout = 0
    /\ abandoned = 0
    /\ events = <<>>
    /\ otherPc = "idle"

\* executeCondition has not been called
ConditionAtRest ==
    /\ branchNodes = <<>>
    /\ branchResults = <<>>

\* no parent execution with a nested_workflow node is modelled
NestedAtRest ==
    /\ parentPc = "idle"
    /\ parentAttempts = 0
    /\ parentMaxAttempts = 1
    /\ parentResults = <<>>
    /\ parentStatus = "success"
    /\ nestedResults = <<>>

\* new ExtensionManager(): nothing is registered, nothing was dispatched
RegistryAtRest ==
    /\ customNodeTypes = <<>>
    /\ registerError = "none"
    /\ dispatched = [type |-> "none"]

\* new ExecutionHistoryProvider(context) on an empty globalState
HistoryAtRest ==
    /\ executions = <<>>
    /\ storedHistory = <<>>

\* no setContextPath or resolveContextPath call on a context object
PathAtRest ==
    /\ pathText = <<>>
    /\ pathValue = [t |-> "undefined"]
    /\ pathBefore = [t |-> "object", f |-> <<>>]
    /\ pathContext = [t |-> "object", f |-> <<>>]
    /\ pathPc = "none"
    /\ pathOutcome = [threw |-> FALSE, value |-> [t |-> "undefined"]]

\* validateWorkflow has not been called on its own
ValidateAtRest == validationResults = <<>>

\* no node has run on a context with overrides applied
OverrideAtRest ==
    /\ nodeContext = [data |-> 0, variables |-> 0, outputs |-> 0, metadata |-> 0]
    /\ written = <<>>
    /\ nodesRun = 0

\* executeNode has not been called on a node with a retry policy
RetryAtRest ==
    /\ retryPolicy = [defined |-> FALSE]
    /\ retryAttempts = 0
    /\ delays = <<>>
    /\ retryPc = "returned"

\* new ExtensionManager(): no extension is registered
ExtensionAtRest == extensions = <<>>

\* new WorkflowStorageManager(context) on a workspace without workflow files
StorageAtRest ==
    /\ files = <<>>
    /\ workflowCache = <<>>
    /\ cacheInitialized = FALSE
    /\ loadResult = [requested |-> "none"]
    /\ clock = 0

\* chunkText has not been called
ChunkAtRest ==
    /\ chunkInput = [length |-> 0]
    /\ chunkStart = 0
    /\ chunks = <<>>
    /\ chunkPc = "returned"

RestAtRest ==
    /\ ConditionAtRest
    /\ NestedAtRest
    /\ RegistryAtRest
    /\ HistoryAtRest
    /\ PathAtRest
    /\ ValidateAtRest
    /\ OverrideAtRest
    /\ RetryAtRest
    /\ ExtensionAtRest
    /\ StorageAtRest
    /\ ChunkAtRest

Init ==
    /\ \E n \in 0..MaxNodes : \E ids \in IdLists(n) : \E deps \in [1..n -> DepLists] :
       \E entryNodes \in EntryChoices :
          workflow = [nodes |-> MakeNodes(ids, deps), entryNodes |-> entryNodes]
    /\ EngineAtRest
    /\ ExecutorAtRest
    /\ RestAtRest

nodeVars == <<attempts, maxAttempts, lastError, timeout>>

\* the locals of one executeWorkflow call
engineCall == <<pc, aborted, status, nodeResults, outputs, executionOrder, idx,
                attempts, maxAttempts, lastError, timeout, caught, returned>>
history == <<started, invocations, attemptLog, events>>
counters == <<started, invocations, attemptLog>>

NoNode == "-"

\* this.emitEvent(event): the subscribers are called synchronously
emitEvent(type, nodeId) == events' = Append(events, [type |-> type, nodeId |-> nodeId])

\* executeWorkflow up to the try block: registers the AbortController,
\* emits workflow_start, creates the empty result map
StartExecution ==
    /\ pc = "idle"
    /\ activeExecutions' = activeExecutions \cup {executionId}
    /\ status' = "success"
    /\ nodeResults' = <<>>
    /\ pc' = "validate"
    /\ emitEvent("workflow_start", NoNode)
    /\ UNCHANGED <<executorVars, restVars, otherPc, abandoned,
                   workflow, aborted, outputs, executionOrder, idx, nodeVars, caught,
                   returned, counters>>

\* cancelExecution(executionId), or the caller's CancellationToken firing
\* while the call is registered
Cancel ==
    /\ executionId \in activeExecutions
    /\ ~aborted
    /\ aborted' = TRUE
    /\ UNCHANGED <<executorVars, restVars, otherPc, abandoned,
                   workflow, pc, activeExecutions, status, nodeResults, outputs,
                   executionOrder, idx, nodeVars, caught, returned, history>>

\* validateWorkflow returns; the graph is built and sorted
ValidationPasses ==
    /\ pc = "validate"
    /\ validateWorkflow(workflow) = "ok"
    /\ LET sorted == topologicalSort(buildDependencyGraph(workflow.nodes)) IN
       IF sorted.threw
       THEN /\ status' = "failed"
            /\ caught' = "Circular dependency detected"
            /\ pc' = "finally"
            /\ emitEvent("workflow_error", NoNode)
            /\ UNCHANGED <<executionOrder, idx>>
       ELSE /\ executionOrder' = sorted.order
            /\ idx' = 1
            /\ pc' = "loop"
            /\ UNCHANGED <<status, caught, events>>
    /\ UNCHANGED <<executorVars, restVars, otherPc, abandoned,
                   workflow, activeExecutions, aborted, nodeResults, outputs, nodeVars,
                   returned, counters>>

\* validateWorkflow throws: the catch block sets status and emits workflow_error
ValidationFails ==
    /\ pc = "validate"
    /\ validateWorkflow(workflow) # "ok"
    /\ status' = "failed"
    /\ caught' = validateWorkflow(workflow)
    /\ pc' = "finally"
    /\ emitEvent("workflow_error", NoNode)
    /\ UNCHANGED <<executorVars, restVars, otherPc, abandoned,
                   workflow, activeExecutions, aborted, nodeResults, outputs,
                   executionOrder, idx, nodeVars, returned, counters>>

\* the scheduler loop or the attempt loop without its abort check
loopAbortCheckMissing(signalAborted) == FALSE

attemptAbortCheckMissing(signalAborted) == FALSE

\* if (abortController.signal.aborted) at the top of the scheduler loop
loopAbortCheck(signalAborted) == signalAborted

\* if (abortSignal.aborted) throw new Error('Execution aborted'), before
\* each attempt
attemptAbortCheck(signalAborted) == signalAborted

\* for (const nodeId of executionOrder): the order is exhausted
LoopEnd ==
    /\ pc = "loop"
    /\ idx > Len(executionOrder)
    /\ pc' = "finally"
    /\ UNCHANGED <<executorVars, restVars, otherPc, abandoned,
                   workflow, activeExecutions, aborted, status, nodeResults, outputs,
                   executionOrder, idx, nodeVars, caught, returned, history>>

\* if (abortController.signal.aborted) { status = 'partial'; break; }
LoopCancelled ==
    /\ pc = "loop"
    /\ idx <= Len(executionOrder)
    /\ loopAbortCheck(aborted)
    /\ status' = "partial"
    /\ pc' = "finally"
    /\ UNCHANGED <<executorVars, restVars, otherPc, abandoned,
                   workflow, activeExecutions, aborted, nodeResults, outputs,
                   executionOrder, idx, nodeVars, caught, returned, history>>

\* a node left pending instead of skipped
SkippedResultPending(nodeId) ==
    [nodeId |-> nodeId, status |-> PENDING, attempts |-> 0, output |-> UNDEFINED,
     error |-> "none"]

SkippedResult(nodeId) ==
    [nodeId |-> nodeId, status |-> SKIPPED, attempts |-> 0, output |-> UNDEFINED,
     error |-> "none"]

\* the node is not found (continue), or its dependencies are not met (the
\* node is recorded as skipped)
LoopSkipNode ==
    /\ pc = "loop"
    /\ idx <= Len(executionOrder)
    /\ ~loopAbortCheck(aborted)
    /\ LET nodeId == executionOrder[idx] IN
       IF ~HasNode(workflow.nodes, nodeId)
       THEN UNCHANGED nodeResults
       ELSE /\ ~checkDependencies(FindNode(workflow.nodes, nodeId), nodeResults)
            /\ nodeResults' = MapSet(nodeResults, SkippedResult(nodeId))
    /\ idx' = idx + 1
    /\ UNCHANGED <<executorVars, restVars, otherPc, abandoned,
                   workflow, pc, activeExecutions, aborted, status, outputs,
                   executionOrder, nodeVars, caught, returned, history>>

\* the retry policy of a node is read once, when executeNode starts:
\* retryPolicy?.maxAttempts || 1
effectiveMaxAttempts(policyMaxAttempts) ==
    IF policyMaxAttempts = 0 THEN 1 ELSE policyMaxAttempts

\* executeNode is called: node_start is emitted, the retry policy is read
LoopStartNode ==
    /\ pc = "loop"
    /\ idx <= Len(executionOrder)
    /\ ~loopAbortCheck(aborted)
    /\ HasNode(workflow.nodes, executionOrder[idx])
    /\ checkDependencies(FindNode(workflow.nodes, executionOrder[idx]), nodeResults)
    /\ started' = Append(started, executionOrder[idx])
    /\ emitEvent("node_start", executionOrder[idx])
    /\ attempts' = 0
    /\ lastError' = "none"
    /\ \E policyMaxAttempts \in 0..MaxRetryAttempts :
          maxAttempts' = effectiveMaxAttempts(policyMaxAttempts)
    /\ timeout' \in NodeTimeouts(executionOrder[idx])
    /\ pc' = "attempt"
    /\ UNCHANGED <<executorVars, restVars, otherPc, abandoned,
                   workflow, activeExecutions, aborted, status, nodeResults, outputs,
                   executionOrder, idx, caught, returned, invocations, attemptLog>>

\* the loop without context.outputs[nodeId] = result.output
outputsAfterWithoutStore(outs, result) == outs

\* lines 137-147 of executeWorkflow, applied to the result executeNode returned
outputsAfter(outs, result) ==
    IF result.output # UNDEFINED
    THEN MapSet(outs, [nodeId |-> result.nodeId, value |-> result.output])
    ELSE outs

\* the loop without if (result.status === NodeStatus.FAILED) status = 'failed'
statusAfterIgnoringFailure(st, result) == st

statusAfter(st, result) == IF result.status = FAILED THEN "failed" ELSE st

\* a fail-fast loop: break when the node failed
RecordResultFailFast(result) ==
    /\ nodeResults' = MapSet(nodeResults, result)
    /\ outputs' = outputsAfter(outputs, result)
    /\ status' = statusAfter(status, result)
    /\ idx' = idx + 1
    /\ pc' = IF result.status = FAILED THEN "finally" ELSE "loop"

\* executeNode returns result; executeWorkflow records it and goes on
RecordResult(result) ==
    /\ nodeResults' = MapSet(nodeResults, result)
    /\ outputs' = outputsAfter(outputs, result)
    /\ status' = statusAfter(status, result)
    /\ idx' = idx + 1
    /\ pc' = "loop"

\* executeNode has returned: its locals no longer exist
LocalsReleased ==
    /\ attempts' = 0
    /\ maxAttempts' = 1
    /\ lastError' = "none"
    /\ timeout' = 0

\* executeNode without a retry: the first error ends the node
AttemptFailedWithoutRetry(nodeId, made, error) ==
    /\ attemptLog' = [attemptLog EXCEPT ![nodeId] = Append(@, error)]
    /\ emitEvent("node_error", nodeId)
    /\ RecordResult([nodeId |-> nodeId, status |-> FAILED, attempts |-> made,
                     output |-> UNDEFINED, error |-> error])
    /\ LocalsReleased

\* a catch block that reports node_error only when no retry remains
AttemptFailedQuietRetry(nodeId, made, error) ==
    /\ attemptLog' = [attemptLog EXCEPT ![nodeId] = Append(@, error)]
    /\ IF made < maxAttempts
       THEN /\ lastError' = error
            /\ attempts' = made
            /\ pc' = "sleep"
            /\ UNCHANGED <<maxAttempts, timeout, nodeResults, outputs, status, idx,
                           events>>
       ELSE /\ emitEvent("node_error", nodeId)
            /\ RecordResult([nodeId |-> nodeId, status |-> FAILED, attempts |-> made,
                             output |-> UNDEFINED, error |-> error])
            /\ LocalsReleased

\* the catch block of an attempt: node_error, then a backoff sleep if
\* attempts remain, else the loop ends and executeNode returns FAILED
AttemptFailed(nodeId, made, error) ==
    /\ attemptLog' = [attemptLog EXCEPT ![nodeId] = Append(@, error)]
    /\ emitEvent("node_error", nodeId)
    /\ IF made < maxAttempts
       THEN /\ lastError' = error
            /\ attempts' = made
            /\ pc' = "sleep"
            /\ UNCHANGED <<maxAttempts, timeout, nodeResults, outputs, status, idx>>
       ELSE /\ RecordResult([nodeId |-> nodeId, status |-> FAILED, attempts |-> made,
                             output |-> UNDEFINED, error |-> error])
            /\ LocalsReleased

\* while (attempts < maxAttempts): attempts++, the abort check throws
AttemptAborted ==
    /\ pc = "attempt"
    /\ attempts < maxAttempts
    /\ attemptAbortCheck(aborted)
    /\ AttemptFailed(executionOrder[idx], attempts + 1, "Execution aborted")
    /\ UNCHANGED <<executorVars, restVars, otherPc, abandoned,
                   workflow, activeExecutions, aborted, executionOrder,
                   caught, returned, started, invocations>>

\* while (attempts < maxAttempts): attempts++, nodeExecutor.execute is called
AttemptInvoke ==
    /\ pc = "attempt"
    /\ attempts < maxAttempts
    /\ ~attemptAbortCheck(aborted)
    /\ attempts' = attempts + 1
    /\ invocations' = [invocations EXCEPT ![executionOrder[idx]] = @ + 1]
    /\ pc' = "running"
    /\ UNCHANGED <<executorVars, restVars, otherPc, abandoned,
                   workflow, activeExecutions, aborted, status, nodeResults, outputs,
                   executionOrder, idx, maxAttempts, timeout,
                   lastError, caught, returned, started,
                   attemptLog, events>>

\* the executor's promise resolves: node_complete, executeNode returns SUCCESS
ExecutorResolves ==
    /\ pc = "running"
    /\ \E output \in ExecutorOutputs :
          RecordResult([nodeId |-> executionOrder[idx], status |-> SUCCESS,
                        attempts |-> attempts, output |-> output, error |-> "none"])
    /\ attemptLog' = [attemptLog EXCEPT ![executionOrder[idx]] = Append(@, "ok")]
    /\ emitEvent("node_complete", executionOrder[idx])
    /\ LocalsReleased
    /\ UNCHANGED <<executorVars, restVars, otherPc, abandoned,
                   workflow, activeExecutions, aborted, executionOrder,
                   caught, returned, started, invocations>>

\* the executor's promise rejects
ExecutorRejects ==
    /\ pc = "running"
    /\ AttemptFailed(executionOrder[idx], attempts, "executor error")
    /\ UNCHANGED <<executorVars, restVars, otherPc, abandoned,
                   workflow, activeExecutions, aborted, executionOrder,
                   caught, returned, started, invocations>>

\* executeWithTimeout: if (!timeout) return fn(); else the call is raced
\* against a timer
timerArmed(nodeTimeout) == nodeTimeout # 0

\* a timeout that ends the node at once, whatever the retry policy says
AttemptTimesOutWithoutRetry ==
    /\ pc = "running"
    /\ timerArmed(timeout)
    /\ AttemptFailedWithoutRetry(executionOrder[idx], attempts, "Execution timeout")
    /\ abandoned' = abandoned + 1
    /\ UNCHANGED <<executorVars, restVars, otherPc,
                   workflow, activeExecutions, aborted, executionOrder, caught,
                   returned, started, invocations>>

\* the timer wins the race: the attempt throws 'Execution timeout'; the
\* executor's promise is not cancelled and goes on running
AttemptTimesOut ==
    /\ pc = "running"
    /\ timerArmed(timeout)
    /\ AttemptFailed(executionOrder[idx], attempts, "Execution timeout")
    /\ abandoned' = abandoned + 1
    /\ UNCHANGED <<executorVars, restVars, otherPc,
                   workflow, activeExecutions, aborted, executionOrder, caught,
                   returned, started, invocations>>

\* an executor call that lost the race settles; nobody awaits it
AbandonedExecutorSettles ==
    /\ abandoned > 0
    /\ abandoned' = abandoned - 1
    /\ UNCHANGED <<executorVars, restVars, otherPc,
                   workflow, pc, activeExecutions, aborted, status, nodeResults,
                   outputs, executionOrder, idx, nodeVars, caught, returned, history>>

\* await this.sleep(delay) completes
SleepDone ==
    /\ pc = "sleep"
    /\ pc' = "attempt"
    /\ UNCHANGED <<executorVars, restVars, otherPc, abandoned,
                   workflow, activeExecutions, aborted, status, nodeResults, outputs,
                   executionOrder, idx, nodeVars, caught, returned, history>>

\* the registry entry deleted at the end of the try block instead of in a
\* finally block
FinallyOnlyAfterTry ==
    /\ pc = "finally"
    /\ activeExecutions' =
          IF caught = "none" THEN activeExecutions \ {executionId} ELSE activeExecutions
    /\ returned' = "resolved"
    /\ emitEvent("workflow_complete", NoNode)
    /\ pc' = "done"
    /\ UNCHANGED <<executorVars, restVars, otherPc, abandoned,
                   workflow, aborted, status, nodeResults, outputs,
                   executionOrder, idx, nodeVars, caught, counters>>

\* finally { activeExecutions.delete }, workflow_complete, return
Finally ==
    /\ pc = "finally"
    /\ activeExecutions' = activeExecutions \ {executionId}
    /\ returned' = "resolved"
    /\ emitEvent("workflow_complete", NoNode)
    /\ pc' = "done"
    /\ UNCHANGED <<executorVars, restVars, otherPc, abandoned,
                   workflow, aborted, status, nodeResults, outputs, executionOrder,
                   idx, nodeVars, caught, counters>>

Next ==
    \/ StartExecution
    \/ Cancel
    \/ ValidationPasses
    \/ ValidationFails
    \/ LoopEnd
    \/ LoopCancelled
    \/ LoopSkipNode
    \/ LoopStartNode
    \/ AttemptAborted
    \/ AttemptInvoke
    \/ ExecutorResolves
    \/ ExecutorRejects
    \/ AttemptTimesOut
    \/ AbandonedExecutorSettles
    \/ SleepDone
    \/ Finally

Spec == Init /\ [][Next]_vars

\* another executeWorkflow call on the same engine registers its own
\* AbortController under its own id
OtherCallStarts ==
    /\ otherPc = "idle"
    /\ otherPc' = "running"
    /\ activeExecutions' = activeExecutions \cup {otherExecutionId}
    /\ UNCHANGED <<executorVars, restVars,
                   workflow, pc, aborted, status, nodeResults, outputs, executionOrder,
                   idx, nodeVars, caught, returned, history, abandoned>>

\* the other call reaches its finally block and returns
OtherCallReturns ==
    /\ otherPc = "running"
    /\ otherPc' = "done"
    /\ activeExecutions' = activeExecutions \ {otherExecutionId}
    /\ UNCHANGED <<executorVars, restVars,
                   workflow, pc, aborted, status, nodeResults, outputs, executionOrder,
                   idx, nodeVars, caught, returned, history, abandoned>>

NextConcurrent ==
    \/ Next
    \/ OtherCallStarts
    \/ OtherCallReturns

\* two calls of executeWorkflow on one engine, interleaved at their awaits
SpecConcurrent == Init /\ [][NextConcurrent]_vars

(***************************************************************************)
(* NodeExecutor.executeNestedWorkflow.  A parent execution runs a workflow *)
(* whose only node N is a nested_workflow node; the engine variables above *)
(* are those of the executeWorkflow call the nested node makes for the     *)
(* child workflow.  The parent execution is not cancelled and N has no     *)
(* timeout.                                                                *)
(***************************************************************************)
parentExecutionId == "exec-0"

NestedNodeId == "N"

\* retryPolicy.maxAttempts of the nested node: not set, or two attempts
ParentPolicies == {0, 2}

\* result.output !== undefined is false
NoOutput == [kind |-> "undefined"]

\* endTime.getTime() - startTime.getTime(), of executeNode for the node and
\* of executeWorkflow for the execution: two different measurements
NodeDuration(nodeId) == <<"duration of node", nodeId>>
ExecutionDuration(id) == <<"duration of execution", id>>

\* the WorkflowExecutionResult the child call returns
childExecutionResult ==
    [executionId |-> executionId, status |-> status,
     duration |-> ExecutionDuration(executionId)]

\* catch (error) { throw new Error(`Nested workflow execution failed ...
nestedError(message) == "Nested workflow execution failed: " \o message

\* what executeNestedWorkflow returns
nestedOutput(result) ==
    [kind |-> "nested", nestedWorkflowId |-> "child", executionId |-> result.executionId,
     status |-> result.status, duration |-> result.duration]

\* the parent calls executeWorkflow: its execution is registered, the
\* workflow is valid, the loop reaches N, executeNode makes its first
\* attempt and executeNestedWorkflow awaits loadWorkflowById
ParentStartsNode ==
    /\ parentPc = "idle"
    /\ activeExecutions' = activeExecutions \cup {parentExecutionId}
    /\ parentStatus' = "success"
    /\ parentResults' = <<>>
    /\ \E policyMaxAttempts \in ParentPolicies :
          parentMaxAttempts' = effectiveMaxAttempts(policyMaxAttempts)
    /\ parentAttempts' = 1
    /\ parentPc' = "load"
    /\ UNCHANGED <<executorVars, restButNested, otherPc, abandoned,
                   workflow, pc, aborted, status, nodeResults, outputs, executionOrder,
                   idx, nodeVars, caught, returned, history, nestedResults>>

\* an attempt of the nested node threw: executeNode retries after a sleep, or
\* returns FAILED and the parent's executeWorkflow records it and returns
ParentAttemptFailed(error) ==
    IF parentAttempts < parentMaxAttempts
    THEN /\ parentPc' = "sleep"
         /\ UNCHANGED <<parentResults, parentStatus, activeExecutions>>
    ELSE /\ parentResults' =
               MapSet(parentResults,
                      [nodeId |-> NestedNodeId, status |-> FAILED,
                       attempts |-> parentAttempts, output |-> NoOutput,
                       error |-> error, duration |-> NodeDuration(NestedNodeId)])
         /\ parentStatus' = "failed"
         /\ activeExecutions' = activeExecutions \ {parentExecutionId}
         /\ parentPc' = "done"

\* a nested node whose attempt resolves whatever the child's status is
NestedChildReturnsUnchecked ==
    /\ parentPc = "nested"
    /\ pc = "done"
    /\ nestedResults' = Append(nestedResults, childExecutionResult)
    /\ parentResults' =
          MapSet(parentResults,
                 [nodeId |-> NestedNodeId, status |-> SUCCESS,
                  attempts |-> parentAttempts,
                  output |-> nestedOutput(childExecutionResult),
                  error |-> "none", duration |-> NodeDuration(NestedNodeId)])
    /\ activeExecutions' = activeExecutions \ {parentExecutionId}
    /\ parentPc' = "done"
    /\ UNCHANGED <<executorVars, restButNested, otherPc, abandoned,
                   workflow, pc, aborted, status, nodeResults, outputs, executionOrder,
                   idx, nodeVars, caught, returned, history, parentAttempts,
                   parentMaxAttempts, parentStatus>>

\* loadWorkflowById resolves with the workflow: executeWorkflow is called
NestedWorkflowLoaded ==
    /\ parentPc = "load"
    /\ parentPc' = "nested"
    /\ UNCHANGED <<executorVars, restButNested, otherPc, abandoned, engineCall,
                   workflow, activeExecutions, history, parentAttempts,
                   parentMaxAttempts, parentResults, parentStatus, nestedResults>>

\* loadWorkflowById resolves with nothing: 'Nested workflow not found'
NestedWorkflowNotFound ==
    /\ parentPc = "load"
    /\ ParentAttemptFailed(nestedError("Nested workflow not found"))
    /\ UNCHANGED <<executorVars, restButNested, otherPc, abandoned, engineCall,
                   workflow, history, parentAttempts, parentMaxAttempts,
                   nestedResults>>

\* the child's executeWorkflow call, made by executeNestedWorkflow
NestedStartExecution ==
    /\ parentPc = "nested"
    /\ StartExecution

\* the child call has returned its result: a failed child makes
\* executeNestedWorkflow throw, any other status makes it return the
\* child's executionId, status, duration and outputs
NestedChildReturns ==
    /\ parentPc = "nested"
    /\ pc = "done"
    /\ nestedResults' = Append(nestedResults, childExecutionResult)
    /\ IF childExecutionResult.status = "failed"
       THEN ParentAttemptFailed(nestedError("Nested workflow failed"))
       ELSE /\ parentResults' =
                  MapSet(parentResults,
                         [nodeId |-> NestedNodeId, status |-> SUCCESS,
                          attempts |-> parentAttempts,
                          output |-> nestedOutput(childExecutionResult),
                          error |-> "none", duration |-> NodeDuration(NestedNodeId)])
            /\ activeExecutions' = activeExecutions \ {parentExecutionId}
            /\ parentPc' = "done"
            /\ UNCHANGED parentStatus
    /\ UNCHANGED <<executorVars, restButNested, otherPc, abandoned, engineCall,
                   workflow, history, parentAttempts, parentMaxAttempts>>

\* the sleep before the retry ends: attempts++ and executeNestedWorkflow is
\* called again; its executeWorkflow call starts with fresh locals
ParentSleepDone ==
    /\ parentPc = "sleep"
    /\ parentAttempts' = parentAttempts + 1
    /\ parentPc' = "load"
    /\ pc' = "idle"
    /\ aborted' = FALSE
    /\ status' = "success"
    /\ nodeResults' = <<>>
    /\ outputs' = <<>>
    /\ executionOrder' = <<>>
    /\ idx' = 1
    /\ attempts' = 0
    /\ maxAttempts' = 1
    /\ lastError' = "none"
    /\ caught' = "none"
    /\ returned' = "none"
    /\ started' = <<>>
    /\ invocations' = [n \in NodeIds |-> 0]
    /\ attemptLog' = [n \in NodeIds |-> <<>>]
    /\ timeout' = 0
    /\ events' = <<>>
    /\ UNCHANGED <<executorVars, restButNested, otherPc, abandoned, workflow,
                   activeExecutions, parentMaxAttempts, parentResults, parentStatus,
                   nestedResults>>

NextNested ==
    \/ ParentStartsNode
    \/ NestedWorkflowLoaded
    \/ NestedWorkflowNotFound
    \/ NestedStartExecution
    \/ NestedChildReturns
    \/ ParentSleepDone
    \/ Cancel
    \/ ValidationPasses
    \/ ValidationFails
    \/ LoopEnd
    \/ LoopCancelled
    \/ LoopSkipNode
    \/ LoopStartNode
    \/ AttemptAborted
    \/ AttemptInvoke
    \/ ExecutorResolves
    \/ ExecutorRejects
    \/ AttemptTimesOut
    \/ AbandonedExecutorSettles
    \/ SleepDone
    \/ Finally

\* the child workflow loadWorkflowById returns: any workflow of fewer than
\* MaxNodes nodes that names no entry nodes
InitNested ==
    /\ \E n \in 0..(MaxNodes - 1) : \E ids \in IdLists(n) :
       \E deps \in [1..n -> DepLists] :
          workflow = [nodes |-> MakeNodes(ids, deps), entryNodes |-> <<>>]
    /\ EngineAtRest
    /\ ExecutorAtRest
    /\ RestAtRest

\* a parent execution with a nested_workflow node and the child execution
SpecNested == InitNested /\ [][NextNested]_vars

(***************************************************************************)
(* NodeExecutor: contexts, executeParallel and executeLoop                 *)
(***************************************************************************)
MaxChildren == 2
MaxItems == 2

\* the node ids this.workflowEngine.getNodeById finds in the running workflow
ChildOrder == <<"X", "Y", "Z">>
KnownNodes == Range(ChildOrder)
MISSING == "missing"

\* this.workflowEngine.getNodeById(nodeId): a node of the running workflow
getNodeById(nodeId) ==
    IF nodeId \in KnownNodes \/ HasNode(workflow.nodes, nodeId) THEN nodeId ELSE UNDEFINED

\* node.childNodes: known children, at most one of them not in the workflow
ChildLists ==
    UNION {{SubSeq(ChildOrder, 1, n)}
              \cup {[SubSeq(ChildOrder, 1, n) EXCEPT ![j] = MISSING] : j \in 1..n} :
           n \in 0..MaxChildren}

ParallelNodes ==
    {[type |-> "parallel", childNodes |-> c, waitForAll |-> w] :
        c \in ChildLists, w \in BOOLEAN}

\* node.iterationSource: a path to an array, or a path to something else
IterationSources == {<<"data", "items">>, <<"data", "k">>}

\* node.maxIterations, 0 when it is not set
LoopNodes ==
    {[type |-> "loop", childNodes |-> c, iterationSource |-> s, maxIterations |-> m] :
        c \in ChildLists, s \in IterationSources, m \in 0..(MaxItems + 1)}

\* node.condition: an expression that evaluates to a truthy value, to a falsy
\* value, or that cannot be evaluated
Conditions == {"truthy", "falsy", "invalid"}

ConditionNodes ==
    {[type |-> "condition", condition |-> e, trueBranch |-> t, falseBranch |-> f] :
        e \in Conditions, t \in ChildLists, f \in ChildLists}

\* An object of a context has a scalar under the key k, a list of objects
\* under the key items, and in a loop iteration the keys $item and $iteration.
NoObject == 0

EmptyObject ==
    [k |-> UNDEFINED, items |-> <<>>, item |-> NoObject, index |-> UNDEFINED]

\* the values context.data.k starts with
InitialValues == {"v0", "Date"}

\* the context executeWorkflow built: data with its items, variables,
\* outputs, metadata
InitialHeap(n, k0) ==
    [a \in 1..(n + 4) |->
        IF a <= n THEN [EmptyObject EXCEPT !.k = "v0"]
        ELSE IF a = n + 1 THEN [EmptyObject EXCEPT !.k = k0, !.items = [j \in 1..n |-> j]]
        ELSE EmptyObject]

InitialContext(n) ==
    [data |-> n + 1, variables |-> n + 2, outputs |-> n + 3, metadata |-> n + 4]

\* JSON.parse(JSON.stringify(value)) of a scalar: a Date comes back a string
jsonValue(v) == IF v = "Date" THEN "DateString" ELSE v

RECURSIVE jsonClone(_, _), jsonCloneAll(_, _, _)

\* JSON.parse(JSON.stringify(object)): a copy of the object at address a and
\* of every object below it
jsonClone(h, a) ==
    LET below == jsonCloneAll(h, h[a].items, <<>>)
        item == IF h[a].item = NoObject
                THEN [heap |-> below.heap, addr |-> NoObject]
                ELSE jsonClone(below.heap, h[a].item)
        copy == [k |-> jsonValue(h[a].k), items |-> below.addrs, item |-> item.addr,
                 index |-> h[a].index]
    IN  [heap |-> Append(item.heap, copy), addr |-> Len(item.heap) + 1]

jsonCloneAll(h, addrs, done) ==
    IF addrs = <<>> THEN [heap |-> h, addrs |-> done]
    ELSE LET c == jsonClone(h, Head(addrs)) IN
         jsonCloneAll(c.heap, Tail(addrs), Append(done, c.addr))

\* { ...object }: a new object whose keys hold the same values and references
shallowCopy(h, a) == [heap |-> Append(h, h[a]), addr |-> Len(h) + 1]

\* NodeExecutor.cloneContext
cloneContext(h, ctx) ==
    LET d == jsonClone(h, ctx.data)
        v == jsonClone(d.heap, ctx.variables)
        o == jsonClone(v.heap, ctx.outputs)
        m == shallowCopy(o.heap, ctx.metadata)
    IN  [heap |-> m.heap,
         context |-> [data |-> d.addr, variables |-> v.addr, outputs |-> o.addr,
                      metadata |-> m.addr]]

\* the context paths a child node writes its output to
WritePaths == {<<"data", "k">>, <<"data", "$item", "k">>}
NoWrite == <<>>

\* NodeExecutor.setContextPath, for the paths field.k and field.$item.k
setContextPath(h, ctx, path, value) ==
    LET root == ctx[path[1]] IN
    IF Len(path) = 2 THEN [h EXCEPT ![root].k = value]
    ELSE IF h[root].item = NoObject
         THEN Append([h EXCEPT ![root].item = Len(h) + 1],
                     [EmptyObject EXCEPT !.k = value])
         ELSE [h EXCEPT ![h[root].item].k = value]

\* NodeExecutor.resolveContextPath, for the same paths
resolveContextPath(h, ctx, path) ==
    LET root == ctx[path[1]] IN
    IF Len(path) = 2 THEN h[root].k
    ELSE IF h[root].item = NoObject THEN UNDEFINED ELSE h[h[root].item].k

write(h, ctx, path, value) ==
    IF path = NoWrite THEN h ELSE setContextPath(h, ctx, path, value)

Min(a, b) == IF a < b THEN a ELSE b

\* const maxIterations = node.maxIterations || iterationData.length;
\* const iterations = Math.min(iterationData.length, maxIterations)
loopIterations(length, maxIterations) ==
    Min(length, IF maxIterations = 0 THEN length ELSE maxIterations)

\* the engine is not running; NodeExecutor.execute is about to be called
\* for a parallel or a loop node
InitExecutor ==
    /\ workflow = [nodes |-> <<>>, entryNodes |-> <<>>]
    /\ EngineAtRest
    /\ RestAtRest
    /\ execNode \in ParallelNodes \cup LoopNodes \cup ConditionNodes
    /\ \E n \in (IF execNode.type = "loop" THEN 0..MaxItems ELSE {1}) :
       \E k0 \in InitialValues :
          /\ heap = InitialHeap(n, k0)
          /\ context = InitialContext(n)
    /\ xpc = "idle"
    /\ branchContexts = <<>>
    /\ childStatus = <<>>
    /\ settled = <<>>
    /\ iterations = 0
    /\ iteration = 0
    /\ childIdx = 1
    /\ iterationResults = <<>>
    /\ loopResults = <<>>
    /\ execOutput = [kind |-> "none"]
    /\ thrown = "none"

AllFound(childNodes) ==
    \A j \in 1..Len(childNodes) : getNodeById(childNodes[j]) # UNDEFINED

RECURSIVE fanOut(_, _, _, _)
\* childNodes.map(async (childNode) => { const isolatedContext =
\* this.cloneContext(context); ...
fanOut(h, ctx, n, acc) ==
    IF n = 0 THEN [heap |-> h, contexts |-> acc]
    ELSE LET c == cloneContext(h, ctx) IN
         fanOut(c.heap, ctx, n - 1, Append(acc, c.context))

\* executeParallel up to the await: the children are looked up, every child
\* is started on a clone of the context
ExecuteParallel ==
    /\ xpc = "idle"
    /\ execNode.type = "parallel"
    /\ IF ~AllFound(execNode.childNodes)
       THEN /\ thrown' = "Parallel execution failed: Child node not found"
            /\ xpc' = "threw"
            /\ UNCHANGED <<heap, branchContexts, childStatus>>
       ELSE LET f == fanOut(heap, context, Len(execNode.childNodes), <<>>) IN
            /\ heap' = f.heap
            /\ branchContexts' = f.contexts
            /\ childStatus' = [j \in 1..Len(execNode.childNodes) |-> "running"]
            /\ xpc' = "waiting"
            /\ UNCHANGED thrown
    /\ UNCHANGED <<engineVars, restVars, execNode, context, settled, iterations, iteration,
                   childIdx, iterationResults, loopResults, execOutput>>

\* a child promise settles: this.execute(childNode, isolatedContext) resolved
\* or threw, after the child wrote its output into its context or not
ChildSettles ==
    /\ \E j \in 1..Len(childStatus) :
          /\ childStatus[j] = "running"
          /\ \E ok \in BOOLEAN : \E path \in WritePaths \cup {NoWrite} :
                /\ heap' = write(heap, branchContexts[j], path, execNode.childNodes[j])
                /\ childStatus' =
                      [childStatus EXCEPT ![j] = IF ok THEN "success" ELSE "failed"]
          /\ settled' = Append(settled, j)
    /\ UNCHANGED <<engineVars, restVars, execNode, xpc, context, branchContexts, iterations,
                   iteration, childIdx, iterationResults, loopResults, execOutput,
                   thrown>>

childResult(j) == [nodeId |-> execNode.childNodes[j], status |-> childStatus[j]]

CountStatus(rs, st) == Cardinality({j \in 1..Len(rs) : rs[j].status = st})

\* the statistics and the value executeParallel returns
parallelOutput(rs) ==
    [kind |-> "parallel", waitForAll |-> execNode.waitForAll,
     totalNodes |-> Len(execNode.childNodes),
     successful |-> CountStatus(rs, "success"), failed |-> CountStatus(rs, "failed"),
     results |-> rs]

\* a join that rejects as soon as one child has failed, as Promise.all does
ParallelJoinAllFailFast ==
    /\ xpc = "waiting"
    /\ execNode.waitForAll
    /\ IF \E j \in 1..Len(childStatus) : childStatus[j] = "failed"
       THEN /\ thrown' = "Parallel execution failed"
            /\ xpc' = "threw"
            /\ UNCHANGED execOutput
       ELSE /\ \A j \in 1..Len(childStatus) : childStatus[j] # "running"
            /\ execOutput' =
                  parallelOutput([j \in 1..Len(childStatus) |-> childResult(j)])
            /\ xpc' = "returned"
            /\ UNCHANGED thrown
    /\ UNCHANGED <<engineVars, restVars, execNode, heap, context, branchContexts, childStatus,
                   settled, iterations, iteration, childIdx, iterationResults,
                   loopResults>>

\* waitForAll: await Promise.allSettled(childPromises)
ParallelJoinAll ==
    /\ xpc = "waiting"
    /\ execNode.waitForAll
    /\ \A j \in 1..Len(childStatus) : childStatus[j] # "running"
    /\ execOutput' = parallelOutput([j \in 1..Len(childStatus) |-> childResult(j)])
    /\ xpc' = "returned"
    /\ UNCHANGED <<engineVars, restVars, execNode, heap, context, branchContexts, childStatus,
                   settled, iterations, iteration, childIdx, iterationResults,
                   loopResults, thrown>>

\* not waitForAll: await Promise.race(childPromises).  A child promise never
\* rejects (its catch turns the error into a result), so the race is won by
\* the child that settled first and the catch around the race is dead code.
ParallelJoinFirst ==
    /\ xpc = "waiting"
    /\ ~execNode.waitForAll
    /\ settled # <<>>
    /\ execOutput' = parallelOutput(<<childResult(settled[1])>>)
    /\ xpc' = "returned"
    /\ UNCHANGED <<engineVars, restVars, execNode, heap, context, branchContexts, childStatus,
                   settled, iterations, iteration, childIdx, iterationResults,
                   loopResults, thrown>>

\* const iterationData = this.resolveContextPath(node.iterationSource, context)
iterationData == heap[context.data].items

\* executeLoop up to the for loop
ExecuteLoop ==
    /\ xpc = "idle"
    /\ execNode.type = "loop"
    /\ IF execNode.iterationSource # <<"data", "items">>
       THEN /\ thrown' = "Loop iteration source must be an array"
            /\ xpc' = "threw"
            /\ UNCHANGED iterations
       ELSE /\ iterations' = loopIterations(Len(iterationData), execNode.maxIterations)
            /\ xpc' = "loop"
            /\ UNCHANGED thrown
    /\ UNCHANGED <<engineVars, restVars, execNode, heap, context, branchContexts, childStatus,
                   settled, iteration, childIdx, iterationResults, loopResults,
                   execOutput>>

\* for (let i = 0; i < iterations; i++): the context is cloned, $iteration,
\* $item, $index, $total are set in the clone's data
LoopBeginIteration ==
    /\ xpc = "loop"
    /\ iteration < iterations
    /\ LET c == cloneContext(heap, context) IN
       /\ heap' = [c.heap EXCEPT ![c.context.data].index = ToString(iteration),
                                 ![c.context.data].item = iterationData[iteration + 1]]
       /\ branchContexts' = Append(branchContexts, c.context)
    /\ iterationResults' = <<>>
    /\ childIdx' = 1
    /\ xpc' = "iteration"
    /\ UNCHANGED <<engineVars, restVars, execNode, context, childStatus, settled, iterations,
                   iteration, loopResults, execOutput, thrown>>

\* if (!childNode) throw new Error('Loop child node not found')
LoopChildNotFound ==
    /\ xpc = "iteration"
    /\ childIdx <= Len(execNode.childNodes)
    /\ getNodeById(execNode.childNodes[childIdx]) = UNDEFINED
    /\ thrown' = "Loop child node not found"
    /\ xpc' = "threw"
    /\ UNCHANGED <<engineVars, restVars, execNode, heap, context, branchContexts, childStatus,
                   settled, iterations, iteration, childIdx, iterationResults,
                   loopResults, execOutput>>

IterationTags == <<"i0", "i1", "i2", "i3">>

\* a loop whose child failure ends the loop node, as a condition branch does
LoopChildSettlesRethrow ==
    /\ xpc = "iteration"
    /\ childIdx <= Len(execNode.childNodes)
    /\ getNodeById(execNode.childNodes[childIdx]) # UNDEFINED
    /\ \E ok \in BOOLEAN : \E path \in WritePaths \cup {NoWrite} :
          /\ heap' = write(heap, branchContexts[Len(branchContexts)], path,
                           IterationTags[iteration + 1])
          /\ iterationResults' =
                Append(iterationResults,
                       [nodeId |-> execNode.childNodes[childIdx],
                        status |-> IF ok THEN "success" ELSE "failed"])
          /\ xpc' = IF ok THEN xpc ELSE "threw"
          /\ thrown' = IF ok THEN thrown ELSE "child failed"
    /\ childIdx' = childIdx + 1
    /\ UNCHANGED <<engineVars, restVars, execNode, context, branchContexts, childStatus,
                   settled, iterations, iteration, loopResults, execOutput>>

\* await this.execute(childNode, iterationContext) resolves or throws; the
\* outcome is pushed to iterationResults and the loop goes on
LoopChildSettles ==
    /\ xpc = "iteration"
    /\ childIdx <= Len(execNode.childNodes)
    /\ getNodeById(execNode.childNodes[childIdx]) # UNDEFINED
    /\ \E ok \in BOOLEAN : \E path \in WritePaths \cup {NoWrite} :
          /\ heap' = write(heap, branchContexts[Len(branchContexts)], path,
                           IterationTags[iteration + 1])
          /\ iterationResults' =
                Append(iterationResults,
                       [nodeId |-> execNode.childNodes[childIdx],
                        status |-> IF ok THEN "success" ELSE "failed"])
    /\ childIdx' = childIdx + 1
    /\ UNCHANGED <<engineVars, restVars, execNode, xpc, context, branchContexts, childStatus,
                   settled, iterations, iteration, loopResults, execOutput, thrown>>

\* results.push({ iteration: i, ..., childResults: iterationResults })
LoopEndIteration ==
    /\ xpc = "iteration"
    /\ childIdx > Len(execNode.childNodes)
    /\ loopResults' =
          Append(loopResults,
                 [iteration |-> iteration,
                  childNodesExecuted |-> Len(execNode.childNodes),
                  childResults |-> iterationResults])
    /\ iteration' = iteration + 1
    /\ xpc' = "loop"
    /\ UNCHANGED <<engineVars, restVars, execNode, heap, context, branchContexts, childStatus,
                   settled, iterations, childIdx, iterationResults, execOutput,
                   thrown>>

\* return { totalIterations: iterations, ..., results }
LoopReturn ==
    /\ xpc = "loop"
    /\ iteration >= iterations
    /\ execOutput' = [kind |-> "loop", totalIterations |-> iterations,
                      results |-> loopResults]
    /\ xpc' = "returned"
    /\ UNCHANGED <<engineVars, restVars, execNode, heap, context, branchContexts, childStatus,
                   settled, iterations, iteration, childIdx, iterationResults,
                   loopResults, thrown>>

\* what a failing child node rejects with
ChildError(nodeId) == "error of " \o nodeId

executorLocals == <<branchContexts, childStatus, settled, iterations, iteration,
                    childIdx, iterationResults, loopResults>>

\* executeCondition up to the for loop: the expression is evaluated and the
\* branch is chosen
ExecuteCondition ==
    /\ xpc = "idle"
    /\ execNode.type = "condition"
    /\ IF execNode.condition = "invalid"
       THEN /\ thrown' = "Failed to evaluate expression"
            /\ xpc' = "threw"
            /\ UNCHANGED branchNodes
       ELSE /\ branchNodes' = IF execNode.condition = "truthy"
                              THEN execNode.trueBranch ELSE execNode.falseBranch
            /\ xpc' = "branch"
            /\ UNCHANGED thrown
    /\ UNCHANGED <<engineVars, restButCondition, execNode,
                   heap, context, executorLocals, execOutput,
                   branchResults>>

\* if (!branchNode) throw new Error('Branch node not found')
ConditionBranchNotFound ==
    /\ xpc = "branch"
    /\ Len(branchResults) < Len(branchNodes)
    /\ getNodeById(branchNodes[Len(branchResults) + 1]) = UNDEFINED
    /\ thrown' = "Branch node not found"
    /\ xpc' = "threw"
    /\ UNCHANGED <<engineVars, restButCondition, execNode,
                   heap, context, executorLocals, execOutput,
                   conditionVars>>

\* a condition node that records the failure of a branch node and goes on,
\* as a loop does
ConditionBranchSettlesContinue ==
    /\ xpc = "branch"
    /\ Len(branchResults) < Len(branchNodes)
    /\ LET nodeId == branchNodes[Len(branchResults) + 1] IN
       /\ getNodeById(nodeId) # UNDEFINED
       /\ \E ok \in BOOLEAN : \E path \in WritePaths \cup {NoWrite} :
             /\ heap' = write(heap, context, path, nodeId)
             /\ branchResults' =
                   Append(branchResults,
                          IF ok
                          THEN [nodeId |-> nodeId, status |-> "success",
                                result |-> IF path = NoWrite THEN UNDEFINED ELSE nodeId,
                                error |-> "none"]
                          ELSE [nodeId |-> nodeId, status |-> "failed",
                                result |-> UNDEFINED, error |-> ChildError(nodeId)])
    /\ UNCHANGED <<engineVars, restButCondition, execNode,
                   xpc, context, executorLocals, execOutput,
                   thrown, branchNodes>>

\* await this.execute(branchNode, context) on the context of the condition
\* node itself: the branch node maps its output into that context or not,
\* then resolves, or it throws and the catch records and rethrows the error
ConditionBranchSettles ==
    /\ xpc = "branch"
    /\ Len(branchResults) < Len(branchNodes)
    /\ LET nodeId == branchNodes[Len(branchResults) + 1] IN
       /\ getNodeById(nodeId) # UNDEFINED
       /\ \E ok \in BOOLEAN : \E path \in WritePaths \cup {NoWrite} :
             /\ heap' = write(heap, context, path, nodeId)
             /\ IF ok
                THEN /\ branchResults' =
                           Append(branchResults,
                                  [nodeId |-> nodeId, status |-> "success",
                                   result |-> IF path = NoWrite THEN UNDEFINED
                                              ELSE nodeId,
                                   error |-> "none"])
                     /\ UNCHANGED <<xpc, thrown>>
                ELSE /\ branchResults' =
                           Append(branchResults,
                                  [nodeId |-> nodeId, status |-> "failed",
                                   result |-> UNDEFINED, error |-> ChildError(nodeId)])
                     /\ thrown' = ChildError(nodeId)
                     /\ xpc' = "threw"
    /\ UNCHANGED <<engineVars, restButCondition, execNode,
                   context, executorLocals, execOutput,
                   branchNodes>>

\* return { condition, result, branch, branchNodesExecuted, branchResults }
ConditionReturn ==
    /\ xpc = "branch"
    /\ Len(branchResults) = Len(branchNodes)
    /\ execOutput' = [kind |-> "condition",
                      result |-> execNode.condition = "truthy",
                      branch |-> IF execNode.condition = "truthy" THEN "true" ELSE "false",
                      branchNodesExecuted |-> Len(branchNodes),
                      branchResults |-> branchResults]
    /\ xpc' = "returned"
    /\ UNCHANGED <<engineVars, restButCondition, execNode,
                   heap, context, executorLocals, thrown,
                   conditionVars>>

NextExecutor ==
    \/ ExecuteCondition
    \/ ConditionBranchNotFound
    \/ ConditionBranchSettles
    \/ ConditionReturn
    \/ ExecuteParallel
    \/ ChildSettles
    \/ ParallelJoinAll
    \/ ParallelJoinFirst
    \/ ExecuteLoop
    \/ LoopBeginIteration
    \/ LoopChildNotFound
    \/ LoopChildSettles
    \/ LoopEndIteration
    \/ LoopReturn

\* one call of NodeExecutor.execute for a parallel or a loop node
SpecExecutor == InitExecutor /\ [][NextExecutor]_vars

(***************************************************************************)
(* executeWorkflow on a workflow whose node "A" is a condition or a         *)
(* parallel node: the scheduler's calls of the executor of "A" are calls   *)
(* of executeCondition or executeParallel, whose branch and child nodes    *)
(* are nodes of the same workflow                                          *)
(***************************************************************************)
ExecNodeId == "A"

\* the branch lists of the condition node, the child list of the parallel
\* node: ids of the other nodes
BranchLists == {<<>>, <<"B">>, <<"C">>, <<"B", "C">>}

\* the dependencies of the other nodes: none, or the node "A"
BranchDependencies == {<<>>, <<ExecNodeId>>}

\* the scheduler is at the node "A"
AtExecNode ==
    /\ idx \in DOMAIN executionOrder
    /\ executionOrder[idx] = ExecNodeId

\* an attempt of the node "A": nodeExecutor.execute(node, nodeContext) starts
\* a new executeCondition or executeParallel call
ExecNodeInvoke ==
    /\ pc = "attempt"
    /\ AtExecNode
    /\ attempts < maxAttempts
    /\ ~attemptAbortCheck(aborted)
    /\ attempts' = attempts + 1
    /\ invocations' = [invocations EXCEPT ![ExecNodeId] = @ + 1]
    /\ pc' = "running"
    /\ xpc' = "idle"
    /\ branchNodes' = <<>>
    /\ branchResults' = <<>>
    /\ thrown' = "none"
    /\ execOutput' = [kind |-> "none"]
    /\ branchContexts' = <<>>
    /\ childStatus' = <<>>
    /\ settled' = <<>>
    /\ UNCHANGED <<restButCondition, otherPc, abandoned,
                   workflow, activeExecutions, aborted, status, nodeResults, outputs,
                   executionOrder, idx, maxAttempts, timeout,
                   lastError, caught, returned, started,
                   attemptLog, events>>
    /\ UNCHANGED <<execNode, heap, context, iterations, iteration, childIdx,
                   iterationResults, loopResults>>

\* the call returned: the attempt of the node "A" succeeds
ExecNodeResolves ==
    /\ pc = "running"
    /\ AtExecNode
    /\ xpc = "returned"
    /\ RecordResult([nodeId |-> ExecNodeId, status |-> SUCCESS,
                     attempts |-> attempts, output |-> "value", error |-> "none"])
    /\ attemptLog' = [attemptLog EXCEPT ![ExecNodeId] = Append(@, "ok")]
    /\ emitEvent("node_complete", ExecNodeId)
    /\ LocalsReleased
    /\ UNCHANGED <<executorVars, restVars, otherPc, abandoned,
                   workflow, activeExecutions, aborted, executionOrder,
                   caught, returned, started, invocations>>

\* the call threw: the attempt of the node "A" fails
ExecNodeRejects ==
    /\ pc = "running"
    /\ AtExecNode
    /\ xpc = "threw"
    /\ AttemptFailed(ExecNodeId, attempts, thrown)
    /\ UNCHANGED <<executorVars, restVars, otherPc, abandoned,
                   workflow, activeExecutions, aborted, executionOrder,
                   caught, returned, started, invocations>>

NextBranching ==
    \/ StartExecution
    \/ Cancel
    \/ ValidationPasses
    \/ LoopEnd
    \/ LoopCancelled
    \/ LoopSkipNode
    \/ LoopStartNode
    \/ AttemptAborted
    \/ ~AtExecNode /\ AttemptInvoke
    \/ ~AtExecNode /\ ExecutorResolves
    \/ ~AtExecNode /\ ExecutorRejects
    \/ SleepDone
    \/ Finally
    \/ ExecNodeInvoke
    \/ pc = "running" /\ AtExecNode /\ ExecuteCondition
    \/ pc = "running" /\ AtExecNode /\ ConditionBranchNotFound
    \/ pc = "running" /\ AtExecNode /\ ConditionBranchSettles
    \/ pc = "running" /\ AtExecNode /\ ConditionReturn
    \/ ExecNodeResolves
    \/ ExecNodeRejects

\* a valid workflow of the condition node "A" and up to MaxNodes - 1 other
\* nodes
InitBranching ==
    /\ \E n \in 1..MaxNodes : \E deps \in [2..n -> BranchDependencies] :
          workflow = [nodes |-> MakeNodes(SubSeq(IdOrder, 1, n),
                                          [i \in 1..n |-> IF i = 1 THEN <<>> ELSE deps[i]]),
                      entryNodes |-> <<>>]
    /\ EngineAtRest
    /\ RestAtRest
    /\ \E e \in Conditions : \E t \in BranchLists : \E f \in BranchLists :
          execNode = [type |-> "condition", condition |-> e, trueBranch |-> t,
                      falseBranch |-> f]
    /\ heap = InitialHeap(1, "v0")
    /\ context = InitialContext(1)
    /\ xpc = "idle"
    /\ branchContexts = <<>>
    /\ childStatus = <<>>
    /\ settled = <<>>
    /\ iterations = 0
    /\ iteration = 0
    /\ childIdx = 1
    /\ iterationResults = <<>>
    /\ loopResults = <<>>
    /\ execOutput = [kind |-> "none"]
    /\ thrown = "none"

SpecBranching == InitBranching /\ [][NextBranching]_vars

\* the steps of executeWorkflow on a workflow whose node "A" is a parallel
\* node, but for the caller's cancellation
ParallelHostProgress ==
    \/ StartExecution
    \/ ValidationPasses
    \/ LoopEnd
    \/ LoopCancelled
    \/ LoopSkipNode
    \/ LoopStartNode
    \/ AttemptAborted
    \/ ~AtExecNode /\ AttemptInvoke
    \/ ~AtExecNode /\ ExecutorResolves
    \/ ~AtExecNode /\ ExecutorRejects
    \/ AttemptTimesOut
    \/ AbandonedExecutorSettles
    \/ SleepDone
    \/ Finally
    \/ ExecNodeInvoke
    \/ pc = "running" /\ AtExecNode /\ ExecuteParallel
    \/ pc = "running" /\ AtExecNode /\ ChildSettles
    \/ pc = "running" /\ AtExecNode /\ ParallelJoinAll
    \/ pc = "running" /\ AtExecNode /\ ParallelJoinFirst
    \/ ExecNodeResolves
    \/ ExecNodeRejects

NextParallelHost ==
    \/ ParallelHostProgress
    \/ Cancel

\* a valid workflow of the parallel node "A" and at most one other node
InitParallelHost ==
    /\ \E n \in 1..2 : \E deps \in [2..n -> BranchDependencies] :
          workflow = [nodes |-> MakeNodes(SubSeq(IdOrder, 1, n),
                                          [i \in 1..n |-> IF i = 1 THEN <<>> ELSE deps[i]]),
                      entryNodes |-> <<>>]
    /\ EngineAtRest
    /\ RestAtRest
    /\ \E c \in BranchLists : \E w \in BOOLEAN :
          execNode = [type |-> "parallel", childNodes |-> c, waitForAll |-> w]
    /\ heap = InitialHeap(1, "v0")
    /\ context = InitialContext(1)
    /\ xpc = "idle"
    /\ branchContexts = <<>>
    /\ childStatus = <<>>
    /\ settled = <<>>
    /\ iterations = 0
    /\ iteration = 0
    /\ childIdx = 1
    /\ iterationResults = <<>>
    /\ loopResults = <<>>
    /\ execOutput = [kind |-> "none"]
    /\ thrown = "none"

\* every step that is enabled for good is taken: the event loop runs the
\* continuations that are ready, the timers fire, and every operation
\* started by a node completes or fails
SpecParallelHost ==
    InitParallelHost /\ [][NextParallelHost]_vars /\ WF_vars(ParallelHostProgress)

(***************************************************************************)
(* ExtensionManager's registry of custom node types and the dispatch of    *)
(* NodeExecutor.execute on node.type                                       *)
(***************************************************************************)
CUSTOM == "custom"

\* the values of the NodeType enumeration other than CUSTOM that the model
\* dispatches
BuiltinTypes == {"script"}

\* the strings a node or a CustomNodeType may carry as its type
TypeStrings == {"script", "custom", "my-node", "your-node"}

\* CustomNodeType.executor: the extensions that may provide one
Extensions == {"ext1", "ext2"}

\* customNodeTypes.has(type)
hasCustomNodeType(registry, type) == \E i \in DOMAIN registry : registry[i].type = type

\* ExtensionManager.getCustomNode
getCustomNode(registry, type) ==
    IF hasCustomNodeType(registry, type)
    THEN registry[CHOOSE i \in DOMAIN registry : registry[i].type = type]
    ELSE [type |-> UNDEFINED]

\* NodeExecutor.executeCustom
executeCustom(registry, type) ==
    LET customNode == getCustomNode(registry, type) IN
    IF customNode.type = UNDEFINED
    THEN [type |-> type, kind |-> "threw", by |-> "Custom node type not found"]
    ELSE [type |-> type, kind |-> "custom", by |-> customNode.executor]

\* NodeExecutor.execute: switch (node.type)
execute(registry, type) ==
    IF type \in BuiltinTypes
    THEN [type |-> type, kind |-> "builtin", by |-> type]
    ELSE IF type = CUSTOM
         THEN executeCustom(registry, type)
         ELSE [type |-> type, kind |-> "threw", by |-> "Unknown node type"]

\* ExtensionManager.registerCustomNodeType
RegisterCustomNodeType ==
    \E type \in TypeStrings : \E ext \in Extensions :
       /\ IF hasCustomNodeType(customNodeTypes, type)
          THEN /\ registerError' = "Custom node type already registered"
               /\ UNCHANGED customNodeTypes
          ELSE /\ customNodeTypes' =
                     Append(customNodeTypes, [type |-> type, executor |-> ext])
               /\ registerError' = "none"
       /\ UNCHANGED <<engineVars, executorVars, restButRegistry, dispatched>>

\* ExtensionManager.unregisterExtension: this.customNodeTypes.delete(type)
\* for every node type of the extension
UnregisterExtension ==
    \E ext \in Extensions :
       /\ \E i \in DOMAIN customNodeTypes : customNodeTypes[i].executor = ext
       /\ customNodeTypes' =
             SelectSeq(customNodeTypes, LAMBDA nodeType : nodeType.executor # ext)
       /\ UNCHANGED <<engineVars, executorVars, restButRegistry, registerError,
                      dispatched>>

\* NodeExecutor.execute is called for a node of some type
ExecuteNodeOfType ==
    \E type \in TypeStrings :
       /\ dispatched' = execute(customNodeTypes, type)
       /\ UNCHANGED <<engineVars, executorVars, restButRegistry, customNodeTypes,
                      registerError>>

NextRegistry ==
    \/ RegisterCustomNodeType
    \/ UnregisterExtension
    \/ ExecuteNodeOfType

\* a new ExtensionManager; the engine and the composite node executors are
\* not running
InitRegistry ==
    /\ workflow = [nodes |-> <<>>, entryNodes |-> <<>>]
    /\ EngineAtRest
    /\ ExecutorAtRest
    /\ RestAtRest

\* extensions register and unregister node types while nodes are executed
SpecRegistry == InitRegistry /\ [][NextRegistry]_vars

(***************************************************************************)
(* ExtensionManager.registerExtension and unregisterExtension: the map of   *)
(* extensions beside the map of custom node types.                          *)
(***************************************************************************)
\* the longest nodeTypes list of an extension
MaxNodeTypes == 2

\* the type names extensions and direct callers register
NodeTypeNames == {"my-node", "your-node"}

\* the executor of a node type that was registered by a direct call of
\* registerCustomNodeType
Direct == "direct"

\* PluginExtension: id and nodeTypes (an absent list behaves as an empty one)
PluginExtensions ==
    UNION {{[id |-> id,
             nodeTypes |-> [i \in 1..n |-> [type |-> names[i], executor |-> id]]] :
               names \in [1..n -> NodeTypeNames]} :
             <<id, n>> \in Extensions \X (0..MaxNodeTypes)}

\* this.extensions.has(id)
hasExtension(registered, id) == \E i \in DOMAIN registered : registered[i].id = id

\* this.extensions.get(id)
getExtension(registered, id) ==
    registered[CHOOSE i \in DOMAIN registered : registered[i].id = id]

\* the loop with a registerCustomNodeType that sets the entry before it
\* throws for a type that is already registered
RECURSIVE registerNodeTypesSetFirst(_, _)
registerNodeTypesSetFirst(registry, nodeTypes) ==
    IF nodeTypes = <<>>
    THEN [registry |-> registry, threw |-> FALSE]
    ELSE IF hasCustomNodeType(registry, Head(nodeTypes).type)
         THEN [registry |-> Append(registry, Head(nodeTypes)), threw |-> TRUE]
         ELSE registerNodeTypesSetFirst(Append(registry, Head(nodeTypes)), Tail(nodeTypes))

\* for (const nodeType of extension.nodeTypes) this.registerCustomNodeType(nodeType):
\* the registry when the loop ends or when registerCustomNodeType throws
RECURSIVE registerNodeTypes(_, _)
registerNodeTypes(registry, nodeTypes) ==
    IF nodeTypes = <<>>
    THEN [registry |-> registry, threw |-> FALSE]
    ELSE IF hasCustomNodeType(registry, Head(nodeTypes).type)
         THEN [registry |-> registry, threw |-> TRUE]
         ELSE registerNodeTypes(Append(registry, Head(nodeTypes)), Tail(nodeTypes))

\* for (const nodeType of extension.nodeTypes) this.customNodeTypes.delete(nodeType.type)
deleteNodeTypes(registry, nodeTypes) ==
    SelectSeq(registry,
              LAMBDA entry : \A i \in DOMAIN nodeTypes : nodeTypes[i].type # entry.type)

\* ExtensionManager.registerExtension; initialize, if the extension has one,
\* resolves or rejects
RegisterExtension ==
    \E extension \in PluginExtensions : \E initialized \in BOOLEAN :
       /\ IF hasExtension(extensions, extension.id)
          THEN /\ registerError' = "Extension already registered"
               /\ UNCHANGED <<extensions, customNodeTypes>>
          ELSE IF ~initialized
               THEN /\ registerError' = "initialize rejected"
                    /\ UNCHANGED <<extensions, customNodeTypes>>
               ELSE LET done == registerNodeTypes(customNodeTypes, extension.nodeTypes) IN
                    /\ customNodeTypes' = done.registry
                    /\ IF done.threw
                       THEN /\ registerError' = "Custom node type already registered"
                            /\ UNCHANGED extensions
                       ELSE /\ registerError' = "none"
                            /\ extensions' = Append(extensions, extension)
       /\ UNCHANGED <<engineVars, executorVars, restButRegistryAndExtension, dispatched>>

\* ExtensionManager.unregisterExtension of a registered extension (for an id
\* that is not registered the method returns at once)
UnregisterExtensionById ==
    \E id \in Extensions :
       /\ hasExtension(extensions, id)
       /\ customNodeTypes' =
             deleteNodeTypes(customNodeTypes, getExtension(extensions, id).nodeTypes)
       /\ extensions' = SelectSeq(extensions, LAMBDA extension : extension.id # id)
       /\ registerError' = "none"
       /\ UNCHANGED <<engineVars, executorVars, restButRegistryAndExtension, dispatched>>

\* ExtensionManager.registerCustomNodeType called directly
RegisterNodeTypeDirectly ==
    \E type \in NodeTypeNames :
       /\ IF hasCustomNodeType(customNodeTypes, type)
          THEN /\ registerError' = "Custom node type already registered"
               /\ UNCHANGED customNodeTypes
          ELSE /\ customNodeTypes' =
                     Append(customNodeTypes, [type |-> type, executor |-> Direct])
               /\ registerError' = "none"
       /\ UNCHANGED <<engineVars, executorVars, restButRegistry, dispatched>>

NextExtensions ==
    \/ RegisterExtension
    \/ UnregisterExtensionById
    \/ RegisterNodeTypeDirectly

\* extensions with their node types are registered and unregistered, and node
\* types are registered directly, on a new ExtensionManager
SpecExtensions == InitRegistry /\ [][NextExtensions]_vars

(***************************************************************************)
(* WorkflowStorageManager: the workflow files of the workspace and the      *)
(* cache of loaded workflows.  A workflow is modelled by its id, a file by  *)
(* the id of the workflow written in it and its modification time.          *)
(***************************************************************************)
\* the largest number of file writes (saveWorkflow or a change from outside)
MaxWrites == 3

Uris == {"a.workflow.json", "b.workflow.json"}

WorkflowIds == {"w1", "w2"}

\* the content of a file that loadWorkflow rejects
Invalid == "invalid"

\* loadWorkflowById returns null
NULL == "null"

\* the orders in which findFiles may list the files
UriOrders == {<<"a.workflow.json", "b.workflow.json">>, <<"b.workflow.json", "a.workflow.json">>}

\* Map.set
CacheSet(cache, key, entry) ==
    [k \in DOMAIN cache \cup {key} |-> IF k = key THEN entry ELSE cache[k]]

\* Map.delete
CacheDelete(cache, key) == [k \in DOMAIN cache \ {key} |-> cache[k]]

\* loadWorkflow(uri) returns a workflow: the file is there and passes
\* validateWorkflow
loads(fs, uri) == uri \in DOMAIN fs /\ fs[uri].id # Invalid

\* listWorkflows: the files that load, in the order findFiles gives them
listWorkflows(fs, order) == SelectSeq(order, LAMBDA uri : loads(fs, uri))

\* the for loop of initializeCache over the listed workflows
RECURSIVE cacheAll(_, _, _)
cacheAll(cache, fs, listed) ==
    IF listed = <<>>
    THEN cache
    ELSE cacheAll(CacheSet(cache, fs[Head(listed)].id,
                           [workflow |-> fs[Head(listed)].id, uri |-> Head(listed),
                            lastModified |-> fs[Head(listed)].mtime]),
                  fs, Tail(listed))

\* WorkflowStorageManager.initializeCache
initializeCache(cache, initialized, fs, order) ==
    IF initialized THEN cache ELSE cacheAll(cache, fs, listWorkflows(fs, order))

\* a comparison that takes every cached entry for current
unmodifiedAlways(mtime, lastModified) == TRUE

\* stat.mtime === cached.lastModified
unmodified(mtime, lastModified) == mtime = lastModified

\* loadWorkflowById: "Not in cache, search all workflows"
searchWorkflows(cache, fs, order, workflowId) ==
    LET listed == listWorkflows(fs, order)
        found == {i \in DOMAIN listed : fs[listed[i]].id = workflowId} IN
    IF found = {}
    THEN [cache |-> cache, returned |-> NULL]
    ELSE LET uri == listed[CHOOSE i \in found : \A j \in found : i <= j] IN
         [cache |-> CacheSet(cache, workflowId,
                             [workflow |-> fs[uri].id, uri |-> uri,
                              lastModified |-> fs[uri].mtime]),
          returned |-> fs[uri].id]

\* WorkflowStorageManager.loadWorkflowById after initializeCache
loadWorkflowById(cache, fs, order, workflowId) ==
    IF workflowId \in DOMAIN cache
    THEN LET cached == cache[workflowId] IN
         IF cached.uri \notin DOMAIN fs
         THEN searchWorkflows(CacheDelete(cache, workflowId), fs, order, workflowId)
         ELSE IF unmodified(fs[cached.uri].mtime, cached.lastModified)
              THEN [cache |-> cache, returned |-> cached.workflow]
              ELSE IF loads(fs, cached.uri)
                   THEN [cache |-> CacheSet(cache, workflowId,
                                            [workflow |-> fs[cached.uri].id,
                                             uri |-> cached.uri,
                                             lastModified |-> fs[cached.uri].mtime]),
                         returned |-> fs[cached.uri].id]
                   ELSE searchWorkflows(CacheDelete(cache, workflowId), fs, order,
                                        workflowId)
    ELSE searchWorkflows(cache, fs, order, workflowId)

\* WorkflowStorageManager.saveWorkflow(uri, workflow)
SaveWorkflow ==
    \E uri \in Uris : \E id \in WorkflowIds :
       /\ clock < MaxWrites
       /\ clock' = clock + 1
       /\ files' = CacheSet(files, uri, [id |-> id, mtime |-> clock'])
       /\ workflowCache' = CacheSet(workflowCache, id,
                                    [workflow |-> id, uri |-> uri, lastModified |-> clock'])
       /\ loadResult' = [requested |-> "none"]
       /\ UNCHANGED <<engineVars, executorVars, restButStorage, cacheInitialized>>

\* WorkflowStorageManager.importWorkflow(uri) of a file that loads: the
\* workflow it returns has a new id and is not stored
ImportWorkflow ==
    \E uri \in Uris :
       /\ loads(files, uri)
       /\ cacheInitialized' = FALSE
       /\ loadResult' = [requested |-> "none"]
       /\ UNCHANGED <<engineVars, executorVars, restButStorage, files, workflowCache,
                      clock>>

\* WorkflowStorageManager.refreshCache
RefreshCache ==
    \E order \in UriOrders :
       /\ workflowCache' = initializeCache(<<>>, FALSE, files, order)
       /\ cacheInitialized' = TRUE
       /\ loadResult' = [requested |-> "none"]
       /\ UNCHANGED <<engineVars, executorVars, restButStorage, files, clock>>

\* a workflow file is written from outside the storage manager
FileChanged ==
    \E uri \in Uris : \E id \in WorkflowIds \cup {Invalid} :
       /\ clock < MaxWrites
       /\ clock' = clock + 1
       /\ files' = CacheSet(files, uri, [id |-> id, mtime |-> clock'])
       /\ loadResult' = [requested |-> "none"]
       /\ UNCHANGED <<engineVars, executorVars, restButStorage, workflowCache,
                      cacheInitialized>>

\* a workflow file is deleted from outside the storage manager
FileDeleted ==
    \E uri \in DOMAIN files :
       /\ files' = CacheDelete(files, uri)
       /\ loadResult' = [requested |-> "none"]
       /\ UNCHANGED <<engineVars, executorVars, restButStorage, workflowCache,
                      cacheInitialized, clock>>

\* WorkflowStorageManager.loadWorkflowById(workflowId)
LoadWorkflowById ==
    \E workflowId \in WorkflowIds : \E order \in UriOrders :
       LET done == loadWorkflowById(
                      initializeCache(workflowCache, cacheInitialized, files, order),
                      files, order, workflowId) IN
       /\ workflowCache' = done.cache
       /\ cacheInitialized' = TRUE
       /\ loadResult' = [requested |-> workflowId, returned |-> done.returned]
       /\ UNCHANGED <<engineVars, executorVars, restButStorage, files, clock>>

NextStorage ==
    \/ SaveWorkflow
    \/ ImportWorkflow
    \/ RefreshCache
    \/ FileChanged
    \/ FileDeleted
    \/ LoadWorkflowById

\* workflows are saved, imported and loaded by id while their files change
SpecStorage == InitRegistry /\ [][NextStorage]_vars

(***************************************************************************)
(* VectorDatabaseManager.chunkText, as prepareDocuments calls it for the    *)
(* string a vector-generation node reads.  The text is the sequence of its  *)
(* positions 1..length, so that a chunk tells which part of the text it is. *)
(***************************************************************************)
\* the longest text
MaxTextLength == 4

\* options?.chunkSize || 512
DefaultChunkSize == 512

\* options?.overlap || 50
DefaultOverlap == 50

\* node.chunkSize and node.overlap: 0 stands for a number that is not set and
\* for 0, which prepareDocuments treats alike
ChunkSizeOptions == {-1, 0} \cup (1..(MaxTextLength - 1))
OverlapOptions == {-1, 0} \cup (1..(MaxTextLength - 2))

\* the chunks list is recorded up to this length, one more than the chunks
\* of a text that is cut one character at a time; start is recorded down to
\* MinStart, which it cannot reach before the list is that long
MaxChunks == MaxTextLength + 1
MinStart == 0 - (DefaultOverlap + 1) * MaxChunks

Larger(a, b) == IF a > b THEN a ELSE b

\* the chunkSize and the overlap prepareDocuments passes to chunkText
effectiveChunkSize(options) ==
    IF options.chunkSize = 0 THEN DefaultChunkSize ELSE options.chunkSize
effectiveOverlap(options) ==
    IF options.overlap = 0 THEN DefaultOverlap ELSE options.overlap

\* String.prototype.slice(start, end): a negative index counts from the end
slice(text, start, end) ==
    LET from == IF start < 0 THEN Larger(Len(text) + start, 0) ELSE Min(start, Len(text))
        to == IF end < 0 THEN Larger(Len(text) + end, 0) ELSE Min(end, Len(text)) IN
    SubSeq(text, from + 1, to)

\* a step that skips the overlap instead of repeating it
nextStartSkipping(start, chunkSize, overlap) == start + chunkSize + overlap

\* start += chunkSize - overlap
nextStart(start, chunkSize, overlap) == start + chunkSize - overlap

\* one iteration of while (start < text.length)
ChunkStep ==
    LET text == [i \in 1..chunkInput.length |-> i]
        chunkSize == effectiveChunkSize(chunkInput)
        overlap == effectiveOverlap(chunkInput)
        end == Min(chunkStart + chunkSize, Len(text)) IN
    /\ chunkPc = "looping"
    /\ chunkStart < Len(text)
    /\ chunks' = IF Len(chunks) < MaxChunks
                 THEN Append(chunks, slice(text, chunkStart, end))
                 ELSE chunks
    /\ chunkStart' = Larger(nextStart(chunkStart, chunkSize, overlap), MinStart)
    /\ UNCHANGED <<engineVars, executorVars, restButChunk, chunkInput, chunkPc>>

\* the loop condition fails: return chunks
ChunkReturn ==
    /\ chunkPc = "looping"
    /\ ~(chunkStart < chunkInput.length)
    /\ chunkPc' = "returned"
    /\ UNCHANGED <<engineVars, executorVars, restButChunk, chunkInput, chunkStart,
                   chunks>>

NextChunk ==
    \/ ChunkStep
    \/ ChunkReturn

\* prepareDocuments has called chunkText for a string and the options of a
\* vector-generation node
InitChunk ==
    /\ workflow = [nodes |-> <<>>, entryNodes |-> <<>>]
    /\ EngineAtRest
    /\ ExecutorAtRest
    /\ ConditionAtRest
    /\ NestedAtRest
    /\ RegistryAtRest
    /\ HistoryAtRest
    /\ PathAtRest
    /\ ValidateAtRest
    /\ OverrideAtRest
    /\ RetryAtRest
    /\ ExtensionAtRest
    /\ StorageAtRest
    /\ chunkInput \in [length : 0..MaxTextLength, chunkSize : ChunkSizeOptions,
                       overlap : OverlapOptions]
    /\ chunkStart = 0
    /\ chunks = <<>>
    /\ chunkPc = "looping"

\* chunkText runs to its end: the loop is synchronous code that nothing
\* interrupts
SpecChunk == InitChunk /\ [][NextChunk]_vars /\ WF_vars(NextChunk)

(***************************************************************************)
(* ExecutionHistoryProvider: the list of execution records.  A record is   *)
(* modelled by where it came from; its fields play no part in the trimming.*)
(***************************************************************************)
maxHistorySize == 100

\* the largest number of records a JSON document given to importHistory holds
MaxImported == 101

AddedRecord == "added"
ImportedRecord == "imported"

\* this.executions.unshift(execution), then slice(0, maxHistorySize) when the
\* list is longer than maxHistorySize
trim(records) ==
    IF Len(records) > maxHistorySize THEN SubSeq(records, 1, maxHistorySize) ELSE records

\* getStatistics().total
total(records) == Len(records)

\* saveHistory: globalState.update('executionHistory', this.executions)
saveHistory(records) == storedHistory' = records

\* ExecutionHistoryProvider.addExecution
AddExecution ==
    /\ executions' = trim(<<AddedRecord>> \o executions)
    /\ saveHistory(executions')
    /\ UNCHANGED <<engineVars, executorVars, restButHistory>>

\* ExecutionHistoryProvider.clearHistory
ClearHistory ==
    /\ executions' = <<>>
    /\ saveHistory(executions')
    /\ UNCHANGED <<engineVars, executorVars, restButHistory>>

\* ExecutionHistoryProvider.importHistory of a JSON array of n records (a
\* text that is not such an array makes it throw and changes nothing)
ImportHistory ==
    \E n \in 0..MaxImported :
       /\ executions' = [i \in 1..n |-> ImportedRecord]
       /\ saveHistory(executions')
       /\ UNCHANGED <<engineVars, executorVars, restButHistory>>

NextHistory ==
    \/ AddExecution
    \/ ClearHistory
    \/ ImportHistory

InitHistory ==
    /\ workflow = [nodes |-> <<>>, entryNodes |-> <<>>]
    /\ EngineAtRest
    /\ ExecutorAtRest
    /\ RestAtRest

\* any sequence of addExecution, clearHistory and importHistory calls
SpecHistory == InitHistory /\ [][NextHistory]_vars

(***************************************************************************)
(* NodeExecutor.setContextPath and resolveContextPath on any context       *)
(* object.  A JavaScript value is undefined, null, a primitive or an       *)
(* object; an object maps property names to values.  No name made of the   *)
(* characters a and b is a property of Object.prototype or of a string.    *)
(***************************************************************************)
MaxPathLength == 5

PathChars == {"a", "b", "."}

Undefined == [t |-> "undefined"]

Null == [t |-> "null"]

Primitive(v) == [t |-> "primitive", v |-> v]

Object(f) == [t |-> "object", f |-> f]

\* the property names of the context objects the calls are made on
Names == {<<"a">>, <<"b">>}

Leaves == {Primitive("v"), Null}

ObjectsOver(values) == {Object(f) : f \in UNION {[S -> values] : S \in SUBSET Names}}

\* context objects of two levels
Contexts == ObjectsOver(Leaves \cup ObjectsOver(Leaves))

\* the values setContextPath is asked to store
PathValues == {Primitive("w"), Object(<<>>)}

PathTexts == UNION {[1..n -> PathChars] : n \in 0..MaxPathLength}

\* path.split('.')
RECURSIVE split(_)
split(text) ==
    IF \E i \in 1..Len(text) : text[i] = "."
    THEN LET i == CHOOSE j \in 1..Len(text) :
                      /\ text[j] = "."
                      /\ \A k \in 1..(j - 1) : text[k] # "."
         IN <<SubSeq(text, 1, i - 1)>> \o split(SubSeq(text, i + 1, Len(text)))
    ELSE <<text>>

\* part in current, on an object
has(current, part) == part \in DOMAIN current.f

\* current[part] = value, on an object
put(current, part, value) ==
    Object([k \in DOMAIN current.f \cup {part} |->
               IF k = part THEN value ELSE current.f[k]])

\* current[part]: a TypeError on undefined and null, undefined on a primitive
get(current, part) ==
    IF current.t \in {"undefined", "null"} THEN [threw |-> TRUE, value |-> Undefined]
    ELSE IF current.t = "object" /\ has(current, part)
         THEN [threw |-> FALSE, value |-> current.f[part]]
         ELSE [threw |-> FALSE, value |-> Undefined]

\* the loop of resolveContextPath over the parts left, then return current
RECURSIVE resolveParts(_, _)
resolveParts(current, parts) ==
    IF parts = <<>> THEN [threw |-> FALSE, value |-> current]
    ELSE IF current.t \in {"undefined", "null"}
         THEN [threw |-> FALSE, value |-> Undefined]
         ELSE LET next == get(current, parts[1])
              IN IF next.threw THEN next ELSE resolveParts(next.value, Tail(parts))

resolvePath(text, ctx) == resolveParts(ctx, split(text))

\* the loop of setContextPath over the parts left, then the assignment of
\* the last part; value is what current has become.  The in operator and the
\* assignment throw a TypeError on a current that is not an object; an object
\* the loop has created is empty, so nothing has changed when it throws
RECURSIVE setParts(_, _, _)
setParts(current, parts, value) ==
    IF current.t # "object" THEN [threw |-> TRUE, value |-> current]
    ELSE IF Len(parts) = 1
         THEN [threw |-> FALSE, value |-> put(current, parts[1], value)]
         ELSE LET child == IF has(current, parts[1]) THEN current.f[parts[1]]
                           ELSE Object(<<>>)
                  below == setParts(child, Tail(parts), value)
              IN IF below.threw THEN [threw |-> TRUE, value |-> current]
                 ELSE [threw |-> FALSE, value |-> put(current, parts[1], below.value)]

\* setContextPath that stores the value under the whole path as one name
setPathUnsplit(text, value, ctx) == [threw |-> FALSE, value |-> put(ctx, text, value)]

setPath(text, value, ctx) == setParts(ctx, split(text), value)

\* a call of setContextPath(path, value, context)
SetPath ==
    /\ pathPc = "none"
    /\ LET result == setPath(pathText, pathValue, pathContext)
       IN /\ pathContext' = result.value
          /\ pathOutcome' = [threw |-> result.threw, value |-> Undefined]
    /\ pathPc' = "set"
    /\ UNCHANGED <<pathText, pathValue, pathBefore>>
    /\ UNCHANGED <<engineVars, executorVars, restButPath>>

\* a call of resolveContextPath(path, context), on the context as it is or
\* after a setContextPath that returned
ResolvePath ==
    /\ \/ pathPc = "none"
       \/ pathPc = "set" /\ ~pathOutcome.threw
    /\ pathOutcome' = resolvePath(pathText, pathContext)
    /\ pathPc' = IF pathPc = "none" THEN "resolve" ELSE "set-resolve"
    /\ UNCHANGED <<pathText, pathValue, pathBefore, pathContext>>
    /\ UNCHANGED <<engineVars, executorVars, restButPath>>

NextPaths ==
    \/ SetPath
    \/ ResolvePath

InitPaths ==
    /\ workflow = [nodes |-> <<>>, entryNodes |-> <<>>]
    /\ EngineAtRest
    /\ ExecutorAtRest
    /\ ConditionAtRest
    /\ NestedAtRest
    /\ RegistryAtRest
    /\ HistoryAtRest
    /\ ValidateAtRest
    /\ OverrideAtRest
    /\ RetryAtRest
    /\ ExtensionAtRest
    /\ StorageAtRest
    /\ ChunkAtRest
    /\ pathText \in PathTexts
    /\ pathValue \in PathValues
    /\ pathContext \in Contexts
    /\ pathBefore = pathContext
    /\ pathPc = "none"
    /\ pathOutcome = [threw |-> FALSE, value |-> Undefined]

\* any path, value and context, then the calls on them
SpecPaths == InitPaths /\ [][NextPaths]_vars

(***************************************************************************)
(* WorkflowEngine.validateWorkflow called again and again on the workflow  *)
(* an engine was given                                                     *)
(***************************************************************************)
MaxValidations == 2

\* a validateWorkflow that takes the entry nodes off the definition as it
\* checks them
ValidateWorkflowConsuming ==
    /\ Len(validationResults) < MaxValidations
    /\ validationResults' = Append(validationResults, validateWorkflow(workflow))
    /\ workflow' = [workflow EXCEPT !.entryNodes = <<>>]
    /\ UNCHANGED <<pc, activeExecutions, aborted, status, nodeResults, outputs,
                   executionOrder, idx, attempts, maxAttempts, lastError, caught,
                   returned, started, invocations, attemptLog, timeout, abandoned,
                   events, otherPc>>
    /\ UNCHANGED <<executorVars, restButValidate>>

\* validateWorkflow(workflow): nodeIds, graph, visited and recStack are
\* created by the call; it assigns to no field of the workflow (the graph
\* holds the dependency arrays themselves and only reads them) and to no
\* field of the engine
ValidateWorkflow ==
    /\ Len(validationResults) < MaxValidations
    /\ validationResults' = Append(validationResults, validateWorkflow(workflow))
    /\ UNCHANGED <<engineVars, executorVars, restButValidate>>

NextValidate == ValidateWorkflow

\* any workflow definition, validated up to MaxValidations times
SpecValidate == Init /\ [][NextValidate]_vars

(***************************************************************************)
(* WorkflowEngine.applyOverrides and the context the nodes of one          *)
(* execution run on, one after the other                                   *)
(***************************************************************************)
\* node.overrides: not set, an object without the key k, an object with it
Overrides ==
    {[defined |-> FALSE, k |-> UNDEFINED], [defined |-> TRUE, k |-> UNDEFINED],
     [defined |-> TRUE, k |-> "override"]}

\* applyOverrides(context, overrides): the context itself, or
\* { ...context, data: { ...context.data, ...overrides } }
applyOverrides(h, ctx, overrides) ==
    IF ~overrides.defined THEN [heap |-> h, context |-> ctx]
    ELSE LET d == shallowCopy(h, ctx.data)
         IN [heap |-> IF overrides.k = UNDEFINED THEN d.heap
                      ELSE [d.heap EXCEPT ![d.addr].k = overrides.k],
             context |-> [ctx EXCEPT !.data = d.addr]]

\* the scheduler runs the next node: executeNode applies the node's overrides
\* and the executor maps the node's output into nodeContext, or the node
\* writes nothing
RunNodeOnContext ==
    /\ nodesRun < MaxNodes
    /\ \E overrides \in Overrides : \E path \in WritePaths \cup {NoWrite} :
          LET applied == applyOverrides(heap, context, overrides)
              nodeId == IdOrder[nodesRun + 1]
          IN /\ nodeContext' = applied.context
             /\ heap' = write(applied.heap, applied.context, path, nodeId)
             /\ written' = IF path = NoWrite THEN written
                           ELSE [p \in WritePaths |-> IF p = path THEN nodeId ELSE written[p]]
    /\ nodesRun' = nodesRun + 1
    /\ UNCHANGED <<engineVars, restButOverride, execNode, xpc, context, executorLocals,
                   execOutput, thrown>>

NextOverrides == RunNodeOnContext

\* the context executeWorkflow built, with or without an object under
\* data.$item
InitOverrides ==
    /\ workflow = [nodes |-> <<>>, entryNodes |-> <<>>]
    /\ EngineAtRest
    /\ ConditionAtRest
    /\ NestedAtRest
    /\ RegistryAtRest
    /\ HistoryAtRest
    /\ PathAtRest
    /\ ValidateAtRest
    /\ RetryAtRest
    /\ ExtensionAtRest
    /\ StorageAtRest
    /\ ChunkAtRest
    /\ execNode = [type |-> "none"]
    /\ \E k0 \in InitialValues : \E item \in {NoObject, 1} :
          heap = [InitialHeap(1, k0) EXCEPT ![InitialContext(1).data].item = item]
    /\ context = InitialContext(1)
    /\ nodeContext = context
    /\ written = [p \in WritePaths |-> UNDEFINED]
    /\ nodesRun = 0
    /\ xpc = "idle"
    /\ branchContexts = <<>>
    /\ childStatus = <<>>
    /\ settled = <<>>
    /\ iterations = 0
    /\ iteration = 0
    /\ childIdx = 1
    /\ iterationResults = <<>>
    /\ loopResults = <<>>
    /\ execOutput = [kind |-> "none"]
    /\ thrown = "none"

SpecOverrides == InitOverrides /\ [][NextOverrides]_vars

(***************************************************************************)
(* The retry loop of WorkflowEngine.executeNode and calculateBackoff       *)
(***************************************************************************)
MaxPolicyAttempts == 3

DefaultInitialDelay == 1000

\* node.retryPolicy: not set, or { maxAttempts, backoff, initialDelay }
RetryPolicies ==
    {[defined |-> FALSE]}
       \cup {[defined |-> TRUE, maxAttempts |-> m, initialDelay |-> d, backoff |-> b] :
                m \in 0..MaxPolicyAttempts, d \in {0, 1, 250, 500},
                b \in {"linear", "exponential"}}

\* node.retryPolicy?.maxAttempts || 1
policyMaxAttempts(policy) ==
    IF policy.defined THEN effectiveMaxAttempts(policy.maxAttempts) ELSE 1

\* an initial delay read with ?? instead of ||
policyInitialDelayNullish(policy) ==
    IF policy.defined THEN policy.initialDelay ELSE DefaultInitialDelay

\* node.retryPolicy?.initialDelay || 1000
policyInitialDelay(policy) ==
    IF policy.defined /\ policy.initialDelay # 0 THEN policy.initialDelay
    ELSE DefaultInitialDelay

\* node.retryPolicy?.backoff || 'linear'
policyBackoff(policy) == IF policy.defined THEN policy.backoff ELSE "linear"

\* a backoff that doubles from the first retry on
calculateBackoffDoubling(attempt, initialDelay, backoff) ==
    IF backoff = "exponential" THEN initialDelay * 2 ^ attempt
    ELSE initialDelay * attempt

calculateBackoff(attempt, initialDelay, backoff) ==
    IF backoff = "exponential" THEN initialDelay * 2 ^ (attempt - 1)
    ELSE initialDelay * attempt

\* while (attempts < maxAttempts): attempts++, the attempt throws; the catch
\* block sleeps the backoff delay if attempts remain, else the loop ends
RetryAttemptFails ==
    /\ retryPc = "attempt"
    /\ retryAttempts < policyMaxAttempts(retryPolicy)
    /\ retryAttempts' = retryAttempts + 1
    /\ IF retryAttempts' < policyMaxAttempts(retryPolicy)
       THEN /\ delays' = Append(delays,
                                calculateBackoff(retryAttempts',
                                                 policyInitialDelay(retryPolicy),
                                                 policyBackoff(retryPolicy)))
            /\ retryPc' = "sleep"
       ELSE /\ retryPc' = "returned"
            /\ UNCHANGED delays
    /\ UNCHANGED <<engineVars, executorVars, restButRetry, retryPolicy>>

\* attempts++, the attempt succeeds: executeNode returns
RetryAttemptSucceeds ==
    /\ retryPc = "attempt"
    /\ retryAttempts < policyMaxAttempts(retryPolicy)
    /\ retryAttempts' = retryAttempts + 1
    /\ retryPc' = "returned"
    /\ UNCHANGED <<engineVars, executorVars, restButRetry, retryPolicy, delays>>

\* await this.sleep(delay) completes
RetrySleepDone ==
    /\ retryPc = "sleep"
    /\ retryPc' = "attempt"
    /\ UNCHANGED <<engineVars, executorVars, restButRetry, retryPolicy, retryAttempts,
                   delays>>

NextRetry ==
    \/ RetryAttemptFails
    \/ RetryAttemptSucceeds
    \/ RetrySleepDone

\* executeNode is called on a node with any retry policy
InitRetry ==
    /\ workflow = [nodes |-> <<>>, entryNodes |-> <<>>]
    /\ EngineAtRest
    /\ ExecutorAtRest
    /\ ConditionAtRest
    /\ NestedAtRest
    /\ RegistryAtRest
    /\ HistoryAtRest
    /\ PathAtRest
    /\ ValidateAtRest
    /\ OverrideAtRest
    /\ ExtensionAtRest
    /\ StorageAtRest
    /\ ChunkAtRest
    /\ retryPolicy \in RetryPolicies
    /\ retryAttempts = 0
    /\ delays = <<>>
    /\ retryPc = "attempt"

SpecRetry == InitRetry /\ [][NextRetry]_vars

(***************************************************************************)
(* Vocabulary of the properties                                            *)
(***************************************************************************)
DeclaredIds(nodes) == {nodes[i].id : i \in DOMAIN nodes}

\* the dependencies declared for id x by any node carrying that id
DeclaredDeps(nodes, x) ==
    UNION {Range(nodes[i].dependencies) : i \in {j \in DOMAIN nodes : nodes[j].id = x}}

RECURSIVE DependsOnWithin(_, _, _, _)
DependsOnWithin(nodes, x, y, k) ==
    /\ k > 0
    /\ \/ y \in DeclaredDeps(nodes, x)
       \/ \E z \in DeclaredDeps(nodes, x) : DependsOnWithin(nodes, z, y, k - 1)

\* x depends on y, directly or transitively
DependsOn(nodes, x, y) == DependsOnWithin(nodes, x, y, Cardinality(NodeIds))

\* the four structural defects of a workflow definition
DuplicateNodeId(nodes) == Cardinality(DeclaredIds(nodes)) < Len(nodes)

DanglingDependency(nodes) ==
    \E x \in DeclaredIds(nodes) : ~(DeclaredDeps(nodes, x) \subseteq DeclaredIds(nodes))

DependencyCycle(nodes) == \E x \in NodeIds : DependsOn(nodes, x, x)

InvalidEntryNode(wf) == ~(Range(wf.entryNodes) \subseteq DeclaredIds(wf.nodes))

InvalidWorkflow(wf) ==
    \/ DuplicateNodeId(wf.nodes)
    \/ DanglingDependency(wf.nodes)
    \/ DependencyCycle(wf.nodes)
    \/ InvalidEntryNode(wf)

TerminalStatuses == {SUCCESS, FAILED, SKIPPED}

StatusIn(results, nodeId, statuses) ==
    MapHas(results, nodeId) /\ MapGet(results, nodeId).status \in statuses

PositionIn(s, x) == CHOOSE i \in DOMAIN s : s[i] = x

\* every dependency stands before its dependents in the sequence of ids
IsTopologicalOrder(order, nodes) ==
    /\ IsInjective(order)
    /\ Range(order) = DeclaredIds(nodes)
    /\ \A x \in DeclaredIds(nodes) : \A d \in DeclaredDeps(nodes, x) :
          d \in Range(order) /\ PositionIn(order, d) < PositionIn(order, x)

Sorted == pc \in {"loop", "attempt", "running", "sleep"} \/ (pc \in {"finally", "done"} /\ caught = "none")

ChainWorkflow ==
    <<[id |-> "A", dependencies |-> <<>>],
      [id |-> "B", dependencies |-> <<"A">>],
      [id |-> "C", dependencies |-> <<"B">>]>>

(***************************************************************************)
(* C1: a node's execution starts only after every node it declares as a    *)
(* dependency has a terminal status (success, failed or skipped) in the    *)
(* result map; the scheduler processes the nodes in executionOrder, which  *)
(* is a topological order of the dependency graph (A, B, C for the chain   *)
(* A -> B -> C).                                                           *)
(***************************************************************************)
C1_OrderIsTopological ==
    Sorted =>
        /\ IsTopologicalOrder(executionOrder, workflow.nodes)
        /\ [i \in DOMAIN nodeResults |-> nodeResults[i].nodeId]
              = SubSeq(executionOrder, 1, Len(nodeResults))
        /\ Len(nodeResults) \in {idx - 1, idx}
        /\ (workflow.nodes = ChainWorkflow => executionOrder = <<"A", "B", "C">>)

C1_StartsAfterDependencies ==
    \A n \in NodeIds :
        started' = Append(started, n) =>
            \A d \in DeclaredDeps(workflow.nodes, n) : StatusIn(nodeResults, d, TerminalStatuses)

C1_DependencyOrder == []C1_OrderIsTopological /\ [][C1_StartsAfterDependencies]_vars

C1_Witness ==
    /\ workflow.nodes = ChainWorkflow
    /\ pc = "done"
    /\ started = <<"A", "B", "C">>
    /\ \A n \in NodeIds : StatusIn(nodeResults, n, {SUCCESS})

DependenciesSucceeded(n) ==
    \A d \in DeclaredDeps(workflow.nodes, n) : StatusIn(nodeResults, d, {SUCCESS})

C3_FailureContained ==
    /\ \A i \in DOMAIN nodeResults :
          nodeResults[i].status = FAILED =>
              /\ nodeResults[i].error # "none"
              /\ nodeResults[i].attempts >= 1
              /\ caught = "none"
              /\ returned # "rejected"
              /\ pc = "finally" => (idx > Len(executionOrder) \/ status = "partial")
    /\ (pc = "done" /\ caught = "none" /\ status # "partial") =>
          \A n \in DeclaredIds(workflow.nodes) :
              DependenciesSucceeded(n) =>
                  /\ Contains(started, n)
                  /\ StatusIn(nodeResults, n, {SUCCESS, FAILED})
                  /\ MapGet(nodeResults, n).attempts >= 1

C3_Witness ==
    /\ pc = "done"
    /\ returned = "resolved"
    /\ Len(workflow.nodes) = 3
    /\ \E i, j \in DOMAIN nodeResults :
          /\ i < j
          /\ nodeResults[i].status = FAILED
          /\ nodeResults[i].error = "executor error"
          /\ nodeResults[j].status = SUCCESS

(***************************************************************************)
(* C4: the status the call returns is success only if every node of the    *)
(* workflow has status success; when no cancellation occurred and at least *)
(* one node failed the status is failed, however many nodes were skipped.  *)
(***************************************************************************)
C4_FinalStatus ==
    pc = "done" =>
        /\ status = "success" =>
              \A n \in DeclaredIds(workflow.nodes) : StatusIn(nodeResults, n, {SUCCESS})
        /\ (~aborted /\ \E i \in DOMAIN nodeResults : nodeResults[i].status = FAILED) =>
              status = "failed"

C4_Witness ==
    /\ pc = "done"
    /\ ~aborted
    /\ status = "failed"
    /\ Cardinality({i \in DOMAIN nodeResults : nodeResults[i].status = SKIPPED}) = 2
    /\ Cardinality({i \in DOMAIN nodeResults : nodeResults[i].status = FAILED}) = 1

C6_RejectsInvalidWorkflow ==
    (pc = "done" /\ InvalidWorkflow(workflow)) => returned = "rejected"

(***************************************************************************)
(* C7: the circular-dependency error is raised only for a workflow whose   *)
(* dependency graph has a cycle (a self-dependency included), and for      *)
(* every such workflow that passes the two earlier checks; every workflow  *)
(* with a cycle is rejected: no node runs, nodeResults is empty and the    *)
(* status is not success.                                                  *)
(***************************************************************************)
Validated == pc \notin {"idle", "validate"}

C7_CycleRejected ==
    Validated =>
        /\ caught = "circular dependencies" => DependencyCycle(workflow.nodes)
        /\ (/\ DependencyCycle(workflow.nodes)
            /\ ~DuplicateNodeId(workflow.nodes)
            /\ ~DanglingDependency(workflow.nodes)) => caught = "circular dependencies"
        /\ DependencyCycle(workflow.nodes) =>
              /\ caught # "none"
              /\ status # "success"
              /\ nodeResults = <<>>
              /\ started = <<>>
              /\ \A n \in NodeIds : invocations[n] = 0

C7_Witness ==
    /\ pc = "done"
    /\ caught = "circular dependencies"
    /\ Len(workflow.nodes) = 3
    /\ \A i \in DOMAIN workflow.nodes :
          ~Contains(workflow.nodes[i].dependencies, workflow.nodes[i].id)
    /\ nodeResults = <<>>
    /\ status = "failed"

(***************************************************************************)
(* C8 (as stated): nodes with no ordering constraint between them (neither *)
(* depends on the other, directly or transitively) are executed in the     *)
(* order in which the node list declares them.                             *)
(***************************************************************************)
Unordered(nodes, x, y) == x # y /\ ~DependsOn(nodes, x, y) /\ ~DependsOn(nodes, y, x)

C8_DeclarationOrder ==
    \A i, j \in DOMAIN workflow.nodes :
        (/\ i < j
         /\ Unordered(workflow.nodes, workflow.nodes[i].id, workflow.nodes[j].id)
         /\ Contains(started, workflow.nodes[i].id)
         /\ Contains(started, workflow.nodes[j].id)) =>
            PositionIn(started, workflow.nodes[i].id) < PositionIn(started, workflow.nodes[j].id)

(***************************************************************************)
(* C8 (amended): nodes that declare no dependencies are executed in the    *)
(* reverse of the order in which their ids first occur in the node list    *)
(* (as a node's id or in the dependencies of a node); in particular a      *)
(* workflow in which no node declares a dependency is executed in the      *)
(* reverse of its declaration order.                                       *)
(***************************************************************************)
RECURSIVE MentionSeq(_)
MentionSeq(nodes) ==
    IF nodes = <<>> THEN <<>>
    ELSE MentionSeq(SubSeq(nodes, 1, Len(nodes) - 1))
            \o <<nodes[Len(nodes)].id>> \o nodes[Len(nodes)].dependencies

FirstMention(nodes, x) == IndexOf(MentionSeq(nodes), x)

NoDependencies(nodes) == \A i \in DOMAIN nodes : nodes[i].dependencies = <<>>

C8_ReverseFirstMentionOrder ==
    /\ \A i, j \in DOMAIN started :
          (/\ i < j
           /\ DeclaredDeps(workflow.nodes, started[i]) = {}
           /\ DeclaredDeps(workflow.nodes, started[j]) = {}) =>
              FirstMention(workflow.nodes, started[i]) > FirstMention(workflow.nodes, started[j])
    /\ (Sorted /\ NoDependencies(workflow.nodes)) =>
          executionOrder = Reverse([i \in DOMAIN workflow.nodes |-> workflow.nodes[i].id])

C8_Witness ==
    /\ pc = "done"
    /\ NoDependencies(workflow.nodes)
    /\ started = <<"C", "B", "A">>

(***************************************************************************)
(* C9: once the cancellation signal of the execution is set, executeNode   *)
(* is called for no further node and the node executor is invoked for no   *)
(* further attempt, also when an attempt that was in flight finishes       *)
(* afterwards.                                                             *)
(***************************************************************************)
C9_NoStartAfterCancel == aborted => (started' = started /\ invocations' = invocations)

C9_CancellationStopsStarts == [][C9_NoStartAfterCancel]_vars

C9_Witness ==
    /\ pc = "done"
    /\ aborted
    /\ status = "partial"
    /\ Len(started) < Len(workflow.nodes)
    /\ \E i \in DOMAIN nodeResults :
          /\ nodeResults[i].error = "Execution aborted"
          /\ nodeResults[i].attempts = 2
          /\ invocations[nodeResults[i].nodeId] = 1

(***************************************************************************)
(* C10 (as stated): when the scheduler loop observes that the cancellation *)
(* signal is set, every node that has not yet run is recorded in           *)
(* nodeResults with status skipped, the loop stops and the overall status  *)
(* becomes partial.                                                        *)
(***************************************************************************)
LoopObservesCancel ==
    /\ pc = "loop"
    /\ idx <= Len(executionOrder)
    /\ aborted
    /\ <<pc, idx, status, nodeResults, outputs, started, invocations>>'
          # <<pc, idx, status, nodeResults, outputs, started, invocations>>

C10_RemainingNodesSkipped ==
    LoopObservesCancel =>
        /\ pc' = "finally"
        /\ status' = "partial"
        /\ \A k \in idx..Len(executionOrder) :
              StatusIn(nodeResults', executionOrder[k], {SKIPPED})

C10_CancelMarksRemainingSkipped == [][C10_RemainingNodesSkipped]_vars

(***************************************************************************)
(* C10 (amended): when the scheduler loop observes that the cancellation   *)
(* signal is set, the loop stops and the overall status becomes partial;   *)
(* the nodes that have not yet run are not executed and get no entry in    *)
(* nodeResults, which keeps exactly the entries written before.            *)
(***************************************************************************)
C10_LoopStopsPartial ==
    LoopObservesCancel =>
        /\ pc' = "finally"
        /\ status' = "partial"
        /\ nodeResults' = nodeResults
        /\ outputs' = outputs
        /\ started' = started
        /\ invocations' = invocations

C10_PartialLeavesNoEntry ==
    (pc \in {"finally", "done"} /\ status = "partial") =>
        /\ idx <= Len(executionOrder)
        /\ \A k \in idx..Len(executionOrder) :
              /\ ~MapHas(nodeResults, executionOrder[k])
              /\ ~Contains(started, executionOrder[k])
        /\ \A k \in 1..(idx - 1) : MapHas(nodeResults, executionOrder[k])

C10_CancelStopsLoop == []C10_PartialLeavesNoEntry /\ [][C10_LoopStopsPartial]_vars

C10_Witness ==
    /\ pc = "done"
    /\ status = "partial"
    /\ Len(nodeResults) = 1
    /\ Len(workflow.nodes) = 3

(***************************************************************************)
(* C11: an execution that was cancelled while it was in progress returns   *)
(* the status partial, also when the signal arrived while its only or last *)
(* node was executing.                                                     *)
(***************************************************************************)
C11_CancelledIsPartial ==
    (pc = "done" /\ aborted) => status = "partial"

(***************************************************************************)
(* C12: the attempts field of a node result is the number of attempts that *)
(* were made.  A failed node made maxAttempts attempts, every one of them  *)
(* threw, and its error is the error of the last attempt; a successful     *)
(* node succeeded on its last attempt, every earlier attempt threw, and no *)
(* attempt follows the success.                                            *)
(***************************************************************************)
AllThrew(log, n) == \A j \in 1..n : log[j] # "ok"

C12_AttemptsAreCounted ==
    /\ \A i \in 1..Len(nodeResults) :
          LET r == nodeResults[i]
              log == attemptLog[r.nodeId]
          IN  /\ r.status = FAILED =>
                    /\ r.attempts = Len(log)
                    /\ r.attempts >= 1
                    /\ AllThrew(log, Len(log))
                    /\ r.error = log[Len(log)]
              /\ r.status = SUCCESS =>
                    /\ r.attempts = Len(log)
                    /\ r.attempts >= 1
                    /\ log[Len(log)] = "ok"
                    /\ AllThrew(log, Len(log) - 1)

\* the step in which executeNode returns the result of node n
Returns(n) == ~MapHas(nodeResults, n) /\ MapHas(nodeResults', n) /\ pc # "loop"

C12_FailsAfterMaxAttempts ==
    \A n \in NodeIds :
       Returns(n) =>
          LET r == MapGet(nodeResults', n) IN
             /\ r.status = FAILED => r.attempts = maxAttempts
             /\ r.status = SUCCESS => r.attempts <= maxAttempts

C12_AttemptsField == []C12_AttemptsAreCounted /\ [][C12_FailsAfterMaxAttempts]_vars

C12_Witness ==
    /\ \E i \in 1..Len(nodeResults) :
          /\ nodeResults[i].status = FAILED
          /\ nodeResults[i].attempts = 2
          /\ attemptLog[nodeResults[i].nodeId] = <<"executor error", "executor error">>
    /\ \E i \in 1..Len(nodeResults) :
          /\ nodeResults[i].status = SUCCESS
          /\ nodeResults[i].attempts = 2
          /\ attemptLog[nodeResults[i].nodeId] = <<"executor error", "ok">>

(***************************************************************************)
(* C13: an attempt that does not finish within the node's timeout is one   *)
(* failed attempt with the error 'Execution timeout', and the retry policy *)
(* applies to it: the node retries while attempts remain, and a node whose *)
(* every attempt timed out ends failed with attempts = maxAttempts.        *)
(***************************************************************************)
AllTimedOut(log) ==
    /\ log # <<>>
    /\ \A j \in 1..Len(log) : log[j] = "Execution timeout"

C13_TimedOutNodeFails ==
    /\ \A i \in 1..Len(nodeResults) :
          LET r == nodeResults[i]
              log == attemptLog[r.nodeId]
          IN  AllTimedOut(log) =>
                 /\ r.status = FAILED
                 /\ r.error = "Execution timeout"
                 /\ r.attempts = Len(log)
                 /\ invocations[r.nodeId] = Len(log)

\* the step in which the timer wins the race
TimerFires == abandoned' = abandoned + 1

C13_TimeoutIsOneFailedAttempt ==
    TimerFires =>
       LET nodeId == executionOrder[idx] IN
          /\ pc = "running"
          /\ timeout # 0
          /\ attemptLog'[nodeId] = Append(attemptLog[nodeId], "Execution timeout")
          /\ IF attempts < maxAttempts
             THEN /\ pc' = "sleep"
                  /\ nodeResults' = nodeResults
                  /\ attempts' = attempts
                  /\ lastError' = "Execution timeout"
             ELSE /\ MapHas(nodeResults', nodeId)
                  /\ MapGet(nodeResults', nodeId).status = FAILED
                  /\ MapGet(nodeResults', nodeId).attempts = maxAttempts

C13_TimeoutCountsAndRetries ==
    []C13_TimedOutNodeFails /\ [][C13_TimeoutIsOneFailedAttempt]_vars

C13_Witness ==
    \E i \in 1..Len(nodeResults) :
       /\ nodeResults[i].status = FAILED
       /\ nodeResults[i].attempts = 2
       /\ nodeResults[i].error = "Execution timeout"
       /\ attemptLog[nodeResults[i].nodeId] = <<"Execution timeout", "Execution timeout">>

(***************************************************************************)
(* C14: the registry of active executions holds the id of a call exactly   *)
(* while the call is in progress.  Two calls on one engine are registered  *)
(* under different ids, and a call's id is gone when it has returned, with *)
(* any outcome: success, failed nodes, cancellation, failed validation.    *)
(***************************************************************************)
InProgress == pc \notin {"idle", "done"}

C14_RegistryTracksCalls ==
    /\ executionId # otherExecutionId
    /\ activeExecutions \subseteq {executionId, otherExecutionId}
    /\ executionId \in activeExecutions <=> InProgress
    /\ otherExecutionId \in activeExecutions <=> otherPc = "running"
    /\ pc = "done" =>
          /\ returned = "resolved"
          /\ executionId \notin activeExecutions
          /\ status \in {"success", "failed", "partial"}

C14_Witness ==
    /\ pc = "done"
    /\ caught = "Duplicate node ID"
    /\ otherPc = "running"
    /\ activeExecutions = {otherExecutionId}

(***************************************************************************)
(* C15: the events of an execution come in lifecycle order.  The first     *)
(* event is workflow_start; a node_complete or node_error of a node comes  *)
(* after the node_start of that node; every failed attempt of a node has   *)
(* exactly one node_error; workflow_error and workflow_complete come after *)
(* every node event, and nothing follows workflow_complete.                *)
(***************************************************************************)
NodeEventTypes == {"node_start", "node_complete", "node_error"}
TerminalEventTypes == {"workflow_complete", "workflow_error"}

RECURSIVE CountEvents(_, _, _)
CountEvents(evs, type, nodeId) ==
    IF evs = <<>> THEN 0
    ELSE (IF Head(evs) = [type |-> type, nodeId |-> nodeId] THEN 1 ELSE 0)
         + CountEvents(Tail(evs), type, nodeId)

RECURSIVE CountThrown(_)
CountThrown(log) ==
    IF log = <<>> THEN 0
    ELSE (IF Head(log) # "ok" THEN 1 ELSE 0) + CountThrown(Tail(log))

C15_EventOrder ==
    /\ events = <<>> <=> pc = "idle"
    /\ events # <<>> => events[1].type = "workflow_start"
    /\ CountEvents(events, "workflow_start", NoNode) <= 1
    /\ \A i \in 1..Len(events) :
          events[i].type \in {"node_complete", "node_error"} =>
             \E j \in 1..(i - 1) :
                events[j] = [type |-> "node_start", nodeId |-> events[i].nodeId]
    /\ \A n \in NodeIds :
          /\ CountEvents(events, "node_error", n) = CountThrown(attemptLog[n])
          /\ CountEvents(events, "node_complete", n)
                = Len(attemptLog[n]) - CountThrown(attemptLog[n])
          /\ CountEvents(events, "node_start", n) <= 1
    /\ \A i \in 1..Len(events) : \A j \in (i + 1)..Len(events) :
          /\ events[i].type \in TerminalEventTypes => events[j].type \notin NodeEventTypes
          /\ events[i].type = "workflow_complete" => FALSE
    /\ pc = "done" <=>
          (events # <<>> /\ events[Len(events)].type = "workflow_complete")

C15_Witness ==
    /\ pc = "done"
    /\ \E n \in NodeIds :
          /\ CountEvents(events, "node_error", n) = 1
          /\ CountEvents(events, "node_complete", n) = 1
    /\ \E n \in NodeIds : CountEvents(events, "node_error", n) = 2

(***************************************************************************)
(* C16: a value that a parallel child or a loop iteration writes into its  *)
(* context data is visible neither in the context of another child or      *)
(* iteration nor in the context the node was called with.                  *)
(***************************************************************************)
ObjectsBelow(h, a) ==
    {a} \cup Range(h[a].items) \cup (IF h[a].item = NoObject THEN {} ELSE {h[a].item})

\* the scalars reachable from context.data, context.variables, context.outputs
VisibleValues(h, ctx) ==
    {h[a].k : a \in ObjectsBelow(h, ctx.data) \cup ObjectsBelow(h, ctx.variables)
                       \cup ObjectsBelow(h, ctx.outputs)}

\* the value only branch b writes
BranchTag(b) ==
    IF execNode.type = "parallel" THEN execNode.childNodes[b] ELSE IterationTags[b]

C16_BranchWritesIsolated ==
    \A b \in 1..Len(branchContexts) :
       /\ BranchTag(b) \notin VisibleValues(heap, context)
       /\ \A c \in 1..Len(branchContexts) :
             c # b => BranchTag(b) \notin VisibleValues(heap, branchContexts[c])

\* the part of C16 that holds: the children of a parallel node
C16_ParallelChildrenIsolated ==
    execNode.type = "parallel" => C16_BranchWritesIsolated

(***************************************************************************)
(* C17: a parallel node with waitForAll = false returns a result that      *)
(* reflects a child that succeeded, also when another child failed before  *)
(* that child succeeded.                                                   *)
(***************************************************************************)
FirstSuccessReturned ==
    /\ execNode.type = "parallel"
    /\ ~execNode.waitForAll
    /\ xpc = "returned"

C17_FirstSuccessWins ==
    (FirstSuccessReturned /\ \E j \in 1..Len(childStatus) : childStatus[j] = "success")
       => /\ execOutput.successful = 1
          /\ execOutput.failed = 0
          /\ execOutput.results[1].status = "success"

(***************************************************************************)
(* C18: a parallel node with waitForAll = false whose children have all    *)
(* failed throws; it does not return a result.                             *)
(***************************************************************************)
AllChildrenFailed ==
    /\ childStatus # <<>>
    /\ \A j \in 1..Len(childStatus) : childStatus[j] = "failed"

C18_AllFailedThrows ==
    (execNode.type = "parallel" /\ ~execNode.waitForAll /\ AllChildrenFailed)
       => xpc \in {"waiting", "threw"}

\* C19: with waitForAll a failing child of a parallel node does not abort its
\* siblings: when the node returns every child has settled, the results hold
\* exactly one entry per child in child-list order, each with that child's own
\* outcome, and successful + failed = number of children; a child failure
\* never makes the node throw.
AllSettledReturned ==
    /\ execNode.type = "parallel"
    /\ execNode.waitForAll
    /\ xpc = "returned"

C19_WaitForAllAggregates ==
    /\ AllSettledReturned =>
          /\ \A j \in 1..Len(childStatus) : childStatus[j] \in {"success", "failed"}
          /\ Len(childStatus) = Len(execNode.childNodes)
          /\ Len(execOutput.results) = Len(execNode.childNodes)
          /\ \A j \in 1..Len(execNode.childNodes) :
                /\ execOutput.results[j].nodeId = execNode.childNodes[j]
                /\ execOutput.results[j].status = childStatus[j]
          /\ execOutput.successful + execOutput.failed = Len(execNode.childNodes)
          /\ execOutput.totalNodes = Len(execNode.childNodes)
    /\ (execNode.type = "parallel" /\ execNode.waitForAll /\ xpc = "threw")
          => childStatus = <<>>

C19_Witness ==
    /\ AllSettledReturned
    /\ Len(execNode.childNodes) = 2
    /\ settled = <<1, 2>>
    /\ childStatus = <<"failed", "success">>
    /\ execOutput.successful = 1
    /\ execOutput.failed = 1

LoopReturned ==
    /\ execNode.type = "loop"
    /\ xpc = "returned"

LoopThrowReasons ==
    {"Loop child node not found", "Loop iteration source must be an array"}

SelectedBranch ==
    IF execNode.condition = "truthy" THEN execNode.trueBranch ELSE execNode.falseBranch

\* the result of the branch node that settled last
LastResult == branchResults[Len(branchResults)]

C21_BranchRunsInOrderAndFailsFast ==
    (execNode.type = "condition" /\ xpc \in {"branch", "returned", "threw"}) =>
       /\ xpc # "threw" => branchNodes = SelectedBranch
       /\ Len(branchResults) <= Len(branchNodes)
       /\ \A i \in 1..Len(branchResults) :
             /\ branchResults[i].nodeId = branchNodes[i]
             /\ branchResults[i].status = "failed" =>
                   /\ i = Len(branchResults)
                   /\ xpc = "threw"
                   /\ thrown = branchResults[i].error
             /\ branchResults[i].status = "success" \/ branchResults[i].status = "failed"
       /\ xpc = "returned" =>
             /\ Len(branchResults) = Len(branchNodes)
             /\ execOutput.branchResults = branchResults
             /\ \A i \in 1..Len(branchResults) : branchResults[i].status = "success"
       /\ branchContexts = <<>>
       /\ (branchResults # <<>> /\ LastResult.result # UNDEFINED) =>
             LastResult.result \in VisibleValues(heap, context)

C21_Witness ==
    /\ execNode.type = "condition"
    /\ xpc = "threw"
    /\ branchNodes = <<"X", "Y">>
    /\ Len(branchResults) = 1
    /\ branchResults[1].status = "failed"
    /\ thrown = ChildError("X")

(***************************************************************************)
(* C22: when the child workflow run by a nested_workflow node ends with    *)
(* status failed, that attempt of the nested node fails; when it was the   *)
(* node's last attempt the nested node's status is failed and the parent   *)
(* workflow's status is failed.  A nested node recorded as success ran a   *)
(* child that did not end failed.                                          *)
(***************************************************************************)
\* the parent has returned and the last attempt of N ran a child that failed
NestedNodeFailedByChild ==
    /\ parentPc = "done"
    /\ pc = "done"
    /\ status = "failed"

C22_NestedFailurePropagates ==
    /\ NestedNodeFailedByChild =>
          /\ MapHas(parentResults, NestedNodeId)
          /\ MapGet(parentResults, NestedNodeId).status = FAILED
          /\ MapGet(parentResults, NestedNodeId).error
                = nestedError("Nested workflow failed")
          /\ parentStatus = "failed"
    /\ (parentPc \in {"sleep", "done"} /\ nestedResults # <<>>
          /\ nestedResults[Len(nestedResults)].status = "failed") =>
             ~StatusIn(parentResults, NestedNodeId, {SUCCESS})
    /\ StatusIn(parentResults, NestedNodeId, {SUCCESS}) =>
          /\ nestedResults # <<>>
          /\ nestedResults[Len(nestedResults)].status # "failed"
          /\ parentStatus = "success"

C22_Witness ==
    /\ NestedNodeFailedByChild
    /\ parentAttempts = 2
    /\ Len(nestedResults) = 2
    /\ StatusIn(nodeResults, "A", {FAILED})
    /\ StatusIn(parentResults, NestedNodeId, {FAILED})
    /\ parentStatus = "failed"

(***************************************************************************)
(* C23: when a nested_workflow node fails because its child workflow       *)
(* failed, the parent's result entry for that node carries the child       *)
(* execution's own executionId and duration.                               *)
(***************************************************************************)
C23_FailedEntryCarriesChildExecution ==
    NestedNodeFailedByChild =>
       LET entry == MapGet(parentResults, NestedNodeId) IN
       /\ entry.output.kind = "nested"
       /\ entry.output.executionId = childExecutionResult.executionId
       /\ entry.output.duration = childExecutionResult.duration

(***************************************************************************)
(* C24: within one execution at most one node-executor invocation is in    *)
(* flight at any time: neither a retry attempt nor a following node starts *)
(* while an earlier attempt of that execution is still running.            *)
(***************************************************************************)
\* the executor calls of this execution that have not settled yet
InFlight == abandoned + (IF pc = "running" THEN 1 ELSE 0)

C24_OneExecutorInFlight == InFlight <= 1

(***************************************************************************)
(* C25: a node whose type string is not a built-in type and equals a node  *)
(* type registered in the extension registry is dispatched to that type's  *)
(* registered executor; when its type is not registered it fails with an   *)
(* error.                                                                  *)
(***************************************************************************)
C25_DispatchStep ==
    dispatched' # dispatched =>
       LET type == dispatched'.type IN
       type \notin BuiltinTypes =>
          IF hasCustomNodeType(customNodeTypes, type)
          THEN /\ dispatched'.kind = "custom"
               /\ dispatched'.by = getCustomNode(customNodeTypes, type).executor
          ELSE dispatched'.kind = "threw"

C25_RegisteredTypeDispatched == [][C25_DispatchStep]_vars

(***************************************************************************)
(* C26: when a node succeeds with a defined output, that output is stored  *)
(* in context.outputs under the node's id in the same step that records    *)
(* its result, so before any later node starts; it is in context.outputs   *)
(* while every later node runs and when the call returns.  context.outputs *)
(* holds nothing else.                                                     *)
(***************************************************************************)
DefinedOutput(result) == result.status = SUCCESS /\ result.output # UNDEFINED

C26_OutputsHoldSuccessfulResults ==
    /\ \A i \in DOMAIN nodeResults :
          DefinedOutput(nodeResults[i]) =>
             /\ MapHas(outputs, nodeResults[i].nodeId)
             /\ MapGet(outputs, nodeResults[i].nodeId).value = nodeResults[i].output
    /\ \A j \in DOMAIN outputs :
          /\ MapHas(nodeResults, outputs[j].nodeId)
          /\ DefinedOutput(MapGet(nodeResults, outputs[j].nodeId))

\* a later node is running and finds the output of the node before it
C26_Witness ==
    /\ pc = "running"
    /\ idx = 2
    /\ DefinedOutput(MapGet(nodeResults, executionOrder[1]))
    /\ MapGet(outputs, executionOrder[1]).value = "value"

(***************************************************************************)
(* C27: when a run that passed validation and was never cancelled returns, *)
(* nodeResults holds exactly one entry for every node of the workflow, in  *)
(* execution order, each with status success, failed or skipped; an entry  *)
(* that has been written is never changed or removed while the call runs.  *)
(***************************************************************************)
ValidRunReturned ==
    /\ pc = "done"
    /\ validateWorkflow(workflow) = "ok"
    /\ ~aborted

C27_EveryNodeHasTerminalEntry ==
    ValidRunReturned =>
       /\ Len(nodeResults) = Len(workflow.nodes)
       /\ MapKeys(nodeResults) = {workflow.nodes[i].id : i \in DOMAIN workflow.nodes}
       /\ IsInjective([i \in DOMAIN nodeResults |-> nodeResults[i].nodeId])
       /\ [i \in DOMAIN nodeResults |-> nodeResults[i].nodeId] = executionOrder
       /\ \A i \in DOMAIN nodeResults :
             nodeResults[i].status \in {SUCCESS, FAILED, SKIPPED}

C27_EntriesAreFinal ==
    pc # "idle" =>
       /\ Len(nodeResults') >= Len(nodeResults)
       /\ \A i \in DOMAIN nodeResults : nodeResults'[i] = nodeResults[i]

C27_NodeResultsComplete ==
    []C27_EveryNodeHasTerminalEntry /\ [][C27_EntriesAreFinal]_vars

C27_Witness ==
    /\ ValidRunReturned
    /\ Len(workflow.nodes) = 3
    /\ StatusIn(nodeResults, "A", {FAILED})
    /\ \E i \in DOMAIN nodeResults : nodeResults[i].status = SKIPPED
    /\ \E i \in DOMAIN nodeResults : nodeResults[i].status = SUCCESS

(***************************************************************************)
(* C28: for a fixed workflow without parallel nodes and fixed outcomes of  *)
(* every node attempt, two runs of executeWorkflow execute the nodes in    *)
(* the same order and produce nodeResults with the same keys, in the same  *)
(* insertion order, and the same statuses.  Stated on one run: the order   *)
(* is a function of the workflow, the keys of nodeResults are a prefix of  *)
(* that order, the nodes are started in that order, and every status is a  *)
(* function of the outcomes of the node's attempts and of the statuses of  *)
(* its dependencies.                                                       *)
(***************************************************************************)
\* the status the outcomes of the attempts of a node determine
StatusOfOutcomes(nodeId) ==
    IF \E d \in Range(FindNode(workflow.nodes, nodeId).dependencies) :
          ~StatusIn(nodeResults, d, {SUCCESS})
    THEN SKIPPED
    ELSE IF attemptLog[nodeId][Len(attemptLog[nodeId])] = "ok"
         THEN SUCCESS
         ELSE FAILED

C29_HistoryAtMostMax == total(executions) <= maxHistorySize

\* the parts of the path of the call
PathParts == split(pathText)

\* the value the context held under the first i parts before the call
Intermediate(i) == resolveParts(pathBefore, SubSeq(PathParts, 1, i)).value

\* an intermediate of the path that the context held as null or a primitive
BlockedIntermediate ==
    \E i \in 1..(Len(PathParts) - 1) : Intermediate(i).t \in {"primitive", "null"}

\* an intermediate of the path that the context did not hold
MissingIntermediate ==
    \E i \in 1..(Len(PathParts) - 1) : Intermediate(i).t = "undefined"

\* C30 as stated: for any path and context, setPath succeeds, resolvePath
\* then returns the value, and resolvePath on a path with a missing
\* intermediate returns undefined and never throws
C30_SetPathAlwaysSucceeds ==
    /\ pathPc = "set" => ~pathOutcome.threw
    /\ pathPc = "set-resolve" => pathOutcome = [threw |-> FALSE, value |-> pathValue]
    /\ pathPc = "resolve" =>
          /\ ~pathOutcome.threw
          /\ MissingIntermediate => pathOutcome.value = Undefined

\* C30: setPath throws exactly when the context holds null or a primitive
\* as an intermediate of the path, and then leaves the context as it was;
\* otherwise it creates the missing intermediate objects and resolvePath
\* then returns the value; resolvePath never throws and returns undefined
\* on a path with a missing intermediate
C30_SetThenResolveUnlessBlocked ==
    /\ pathPc = "set" =>
          /\ pathOutcome.threw <=> BlockedIntermediate
          /\ pathOutcome.threw => pathContext = pathBefore
          /\ ~pathOutcome.threw =>
                \A i \in 1..(Len(PathParts) - 1) :
                   resolveParts(pathContext, SubSeq(PathParts, 1, i)).value.t = "object"
    /\ pathPc = "set-resolve" => pathOutcome = [threw |-> FALSE, value |-> pathValue]
    /\ pathPc = "resolve" =>
          /\ ~pathOutcome.threw
          /\ MissingIntermediate => pathOutcome.value = Undefined

\* a path of three parts was set on a context that held none of its
\* intermediates, and resolved afterwards
C30_Witness ==
    /\ pathPc = "set-resolve"
    /\ Len(PathParts) = 3
    /\ Intermediate(1).t = "undefined"
    /\ pathOutcome.value = pathValue

\* C31: a validateWorkflow call changes neither the workflow definition nor
\* the engine's state, and returns what every earlier call on the workflow
\* returned
C31_ValidationStep ==
    validationResults' # validationResults =>
       /\ workflow' = workflow
       /\ UNCHANGED <<pc, activeExecutions, aborted, status, nodeResults, outputs,
                      events, otherPc>>
       /\ \A i \in DOMAIN validationResults :
             validationResults'[Len(validationResults')] = validationResults[i]

CancelledInRetryWait == aborted /\ attempts >= 1 /\ pc \in {"sleep", "attempt"}

\* C32: once the cancellation signal is set while a node waits between
\* attempts, no further attempt is counted for the node and no further
\* backoff delay is waited
C32_CancelledWaitStep ==
    CancelledInRetryWait =>
       /\ attempts' <= attempts
       /\ pc = "attempt" => pc' # "sleep"
       /\ nodeResults' # nodeResults =>
             MapGet(nodeResults', executionOrder[idx]).attempts <= attempts

C32_CancelEndsRetryWait == [][C32_CancelledWaitStep]_vars

\* the branch list the condition of the condition node selects
SelectedBranchIds ==
    IF execNode.condition = "truthy" THEN Range(execNode.trueBranch)
    ELSE IF execNode.condition = "falsy" THEN Range(execNode.falseBranch)
    ELSE {}

\* the nodes whose executor has been invoked in this run, by the scheduler or
\* by the current executeCondition call
ExecutedNodes ==
    {n \in NodeIds : invocations[n] > 0}
       \cup {branchResults[i].nodeId : i \in DOMAIN branchResults}

\* C33: a node listed in a branch of the condition node is executed in a run
\* only if the condition selects that branch
C33_OnlySelectedBranchExecuted ==
    execNode.type = "condition" =>
       \A n \in Range(execNode.trueBranch) \cup Range(execNode.falseBranch) :
          n \in ExecutedNodes => n \in SelectedBranchIds

\* C34: what a node has written under a path of context.data is what the
\* shared context holds there for the nodes that run after it, whether or not
\* the writing node declared overrides
C34_WritesVisibleToLaterNodes ==
    nodesRun > 0 =>
       \A p \in WritePaths :
          written[p] # UNDEFINED => resolveContextPath(heap, context, p) = written[p]

\* C35: the executeWorkflow call eventually returns a result and is no longer
\* in the registry of active executions
C35_ExecutionEventuallyReturns ==
    <>(returned # "none" /\ executionId \notin activeExecutions)

\* the error kinds of validateWorkflow, one per defect
ValidationErrors ==
    {"Duplicate node ID", "invalid dependency", "circular dependencies",
     "Invalid entry node"}

\* the first defect of the definition in the order duplicate id, dangling
\* dependency, cycle, invalid entry node
FirstDefect(wf) ==
    IF DuplicateNodeId(wf.nodes) THEN "Duplicate node ID"
    ELSE IF DanglingDependency(wf.nodes) THEN "invalid dependency"
    ELSE IF DependencyCycle(wf.nodes) THEN "circular dependencies"
    ELSE IF InvalidEntryNode(wf) THEN "Invalid entry node"
    ELSE "ok"

\* C36: validateWorkflow reports the first defect in the order duplicate node
\* id, dangling dependency, cycle, invalid entry node, and the four defects
\* have four different errors
C36_FirstDefectReported ==
    /\ Cardinality(ValidationErrors) = 4
    /\ \A i \in DOMAIN validationResults :
          /\ validationResults[i] = FirstDefect(workflow)
          /\ validationResults[i] \in ValidationErrors \cup {"ok"}

\* a definition with a dangling dependency, a cycle and an invalid entry
\* node was validated
C36_Witness ==
    /\ validationResults # <<>>
    /\ ~DuplicateNodeId(workflow.nodes)
    /\ DanglingDependency(workflow.nodes)
    /\ DependencyCycle(workflow.nodes)
    /\ InvalidEntryNode(workflow)
    /\ validationResults[1] = "invalid dependency"

\* the delay after failed attempt a: initialDelay * a, or
\* initialDelay * 2^(a-1) when the backoff is exponential
DelayAfter(a, initialDelay, backoff) ==
    IF backoff = "exponential" THEN initialDelay * 2 ^ (a - 1) ELSE initialDelay * a

\* one delay was waited after every failed attempt but the last
DelaysBetweenAttempts ==
    /\ retryPc = "returned" => Len(delays) = retryAttempts - 1
    /\ retryPc = "sleep" => Len(delays) = retryAttempts
    /\ retryPc = "attempt" => Len(delays) = retryAttempts
    /\ Len(delays) < policyMaxAttempts(retryPolicy)

\* C37 as stated: the delay after failed attempt a is initialDelay * a or
\* initialDelay * 2^(a-1), with initialDelay 1000 and backoff linear when the
\* node sets none, and no delay follows the final attempt
C37_DelaysOfPolicy ==
    /\ DelaysBetweenAttempts
    /\ \A a \in DOMAIN delays :
          delays[a] = DelayAfter(a, policyInitialDelayNullish(retryPolicy),
                                 policyBackoff(retryPolicy))

\* C37: the same, for an initialDelay that is not 0; an initialDelay of 0 is
\* replaced by 1000 like one that is not set
C37_DelaysOfNonZeroPolicy ==
    /\ DelaysBetweenAttempts
    /\ \A a \in DOMAIN delays :
          delays[a] = DelayAfter(a,
                                 IF retryPolicy.defined /\ retryPolicy.initialDelay # 0
                                 THEN retryPolicy.initialDelay ELSE DefaultInitialDelay,
                                 policyBackoff(retryPolicy))

\* three attempts with exponential backoff have failed
C37_Witness ==
    /\ retryPc = "returned"
    /\ retryAttempts = 3
    /\ retryPolicy.defined
    /\ retryPolicy.backoff = "exponential"
    /\ delays = <<250, 500>>

\* a node type in the registry that no registered extension lists and that was
\* not registered directly
OrphanNodeTypes ==
    {i \in DOMAIN customNodeTypes :
        /\ customNodeTypes[i].executor # Direct
        /\ ~\E j \in DOMAIN extensions : \E k \in DOMAIN extensions[j].nodeTypes :
              extensions[j].nodeTypes[k] = customNodeTypes[i]}

\* a step in which registerExtension or registerCustomNodeType throws leaves
\* both maps as they were
C38_ThrowStep ==
    registerError' # "none" => customNodeTypes' = customNodeTypes /\ extensions' = extensions

\* C38: a registerExtension call that throws leaves the registry unchanged (the
\* extension is not listed and none of its node types has been added), so
\* that every registered custom node type always belongs to a registered
\* extension or was registered directly
C38_ThrowingRegisterLeavesRegistry == [](OrphanNodeTypes = {}) /\ [][C38_ThrowStep]_vars

\* C38, what holds: a throwing registerExtension never lists the extension,
\* and the only node types it leaves behind are those of its own list that
\* precede the first already registered one
C38_ThrowingRegisterStep ==
    registerError' # "none" =>
        /\ extensions' = extensions
        /\ \E n \in 0..MaxNodeTypes :
              /\ Len(customNodeTypes') = Len(customNodeTypes) + n
              /\ SubSeq(customNodeTypes', 1, Len(customNodeTypes)) = customNodeTypes
              /\ \A i \in DOMAIN customNodeTypes' : \A j \in DOMAIN customNodeTypes' :
                    customNodeTypes'[i].type = customNodeTypes'[j].type => i = j
C38_ThrowingRegisterNeverLists == [][C38_ThrowingRegisterStep]_vars

\* a registerExtension call has thrown at its second node type and left its
\* first one registered
C38_Witness ==
    /\ registerError = "Custom node type already registered"
    /\ OrphanNodeTypes # {}

\* C39: after any sequence of saves, imports, cache refreshes, file changes
\* and loads, loadWorkflowById(id) has returned null or a workflow whose id is
\* the requested one, and every cache entry is keyed by the id of the
\* workflow it holds
C39_LoadedWorkflowHasRequestedId ==
    /\ loadResult.requested # "none" =>
          loadResult.returned \in {NULL, loadResult.requested}
    /\ \A id \in DOMAIN workflowCache : workflowCache[id].workflow = id

\* C39, what holds: loadWorkflowById returns a workflow that a file of the
\* workspace holds at the time of the call, and returns null only when no
\* file that loads holds a workflow with the requested id
C39_LoadedWorkflowIsInSomeFile ==
    loadResult.requested # "none" =>
        IF loadResult.returned = NULL
        THEN \A uri \in DOMAIN files : files[uri].id # loadResult.requested
        ELSE \E uri \in DOMAIN files : files[uri].id = loadResult.returned

\* loadWorkflowById has reloaded a cached workflow whose file was changed
\* since it was cached
C39_Witness ==
    /\ loadResult.requested # "none"
    /\ loadResult.returned # NULL
    /\ loadResult.requested \in DOMAIN workflowCache
    /\ LET cached == workflowCache[loadResult.requested] IN
          /\ cached.workflow = loadResult.returned
          /\ cached.uri \in DOMAIN files
          /\ cached.lastModified = files[cached.uri].mtime
          /\ cached.lastModified > 1

\* every position of the text is in some chunk
ChunksCoverText ==
    \A position \in 1..chunkInput.length :
       \E i \in DOMAIN chunks : position \in Range(chunks[i])

\* the overlap chunkText is given is not negative and smaller than the chunk
\* size
OverlapBelowChunkSize ==
    /\ 0 <= effectiveOverlap(chunkInput)
    /\ effectiveOverlap(chunkInput) < effectiveChunkSize(chunkInput)

\* C40: for every text and every chunkSize and overlap of a vector-generation
\* node chunkText returns, and the chunks it returns cover the whole text
C40_ChunkTextTerminatesAndCovers ==
    /\ <>(chunkPc = "returned")
    /\ [](chunkPc = "returned" => ChunksCoverText)

\* C40, what holds: chunkText returns chunks that cover the whole text when
\* the overlap is not negative and smaller than the chunk size
C40_ChunkTextOfSmallerOverlap ==
    /\ OverlapBelowChunkSize => <>(chunkPc = "returned")
    /\ [](chunkPc = "returned" /\ OverlapBelowChunkSize => ChunksCoverText)

\* chunkText has returned several overlapping chunks
C40_Witness ==
    /\ chunkPc = "returned"
    /\ OverlapBelowChunkSize
    /\ Len(chunks) >= 2
    /\ \E position \in 1..chunkInput.length :
          position \in Range(chunks[1]) /\ position \in Range(chunks[2])


====
